---- MODULE Spec2Model ----
(***************************************************************************)
(* Model of the FluxLoop CLI data workflow (commands/data.py): the         *)
(* `data push` command (create -> upload -> confirm -> bind ->             *)
(* materialize) and the `data bind` command (bind -> materialize).         *)
(*                                                                         *)
(* One command invocation is one behaviour.  Init fixes the command line;  *)
(* every action is one stretch of the handler between two remote calls:    *)
(* it reads the environment (file system, context store) or one server     *)
(* response, chosen with \E from small sets, and runs the handler up to    *)
(* the next remote call or to the end of the command.                      *)
(***************************************************************************)
EXTENDS Integers, Sequences, FiniteSets, TLC

\* Python's None, for option values and payload entries.
None == "<None>"

\* Python truthiness of an Optional[str]: None and "" are falsy.
Truthy(v) == v # None /\ v # ""

(***************************************************************************)
(* Module constants of data.py.                                            *)
(***************************************************************************)
DATASET_EXTENSIONS == {".csv", ".json", ".jsonl", ".xlsx", ".xls", ".tsv"}
USAGE_CONTEXT == "context"
USAGE_GROUND_TRUTH == "ground-truth"
VALID_GT_SPLITS == {"train", "dev", "test"}
DEFAULT_GT_SAMPLING_SEED == 42

(***************************************************************************)
(* The command lines explored.  String operations of the code are modelled *)
(* on this alphabet: each raw value stands for a class of inputs (already  *)
(* normal, needing strip()/lower(), blank, invalid).                       *)
(***************************************************************************)
Files == {"qa.csv", "requirements.md"}
AsTypes == {None, "DATASET", "document"}
ScenarioArgs == {None, "", "sc_1"}
UsageArgs == {"context", " Ground-Truth ", "bogus"}
SplitArgs == {None, "", " Test ", "bogus"}
LabelArgs == {None, "", "answer"}
RowFilterArgs == {None, "", "lang = 'ko'"}
RoleArgs == {None, "  ", " Validation ", "input"}
ProjectArgs == {None, "proj_1"}
\* (value, click ParameterSource) of --sampling-seed: a value other than the
\* default can only come from the command line.
SeedArgs == { <<DEFAULT_GT_SAMPLING_SEED, "DEFAULT">>,
              <<DEFAULT_GT_SAMPLING_SEED, "COMMANDLINE">>,
              <<7, "COMMANDLINE">> }

\* What the context store and the file system can answer.
ContextScenarios == {None, "sc_ctx"}
ContextProjects == {None, "proj_ctx"}
FileStates == {"missing", "directory", "regular"}

\* HTTP status codes a server can answer with.
StatusCodes == {200, 404, 409, 500}

\* str.strip().lower() on the alphabet above.
StripLower(s) ==
    CASE s = " Ground-Truth " -> "ground-truth"
      [] s = " Test "         -> "test"
      [] s = " Validation "   -> "validation"
      [] s = "DATASET"        -> "dataset"
      [] s = "  "             -> ""
      [] OTHER                -> s

\* Path.suffix.lower() and Path.name / stat / mimetypes of the files above.
Suffix(file) == IF file = "qa.csv" THEN ".csv" ELSE ".md"
MimeType(file) == IF file = "qa.csv" THEN "text/csv" ELSE "text/markdown"
FileSize(file) == IF file = "qa.csv" THEN 22 ELSE 15

\* httpx.Response.is_success
IsSuccess(status_code) == 200 <= status_code /\ status_code < 300

\* api_utils.handle_api_error: raises (typer.Exit(1)) unless the response is
\* successful.
HandleApiErrorRaises(status_code) == ~IsSuccess(status_code)

\* A record extended with key k when cond holds (payload[k] = v under an if).
WithKey(rec, cond, k, v) == IF cond THEN (k :> v) @@ rec ELSE rec


(***************************************************************************)
(* Pure helpers of data.py.                                                *)
(***************************************************************************)
\* _infer_data_category(file_path, override)
InferDataCategory(file, override) ==
    IF Truthy(override) /\ StripLower(override) = "dataset" THEN "DATASET"
    ELSE IF Truthy(override) /\ StripLower(override) \in {"document", "knowledge"}
         THEN "KNOWLEDGE"
    ELSE IF Suffix(file) \in DATASET_EXTENSIONS THEN "DATASET"
    ELSE "KNOWLEDGE"

\* _infer_file_type(data_category)
InferFileType(data_category) ==
    IF data_category = "DATASET" THEN "structured" ELSE "document"

\* _normalize_usage(usage): the normalized value, and whether it returns
\* rather than raising typer.BadParameter.
NormalizeUsage(usage) == StripLower(usage)
NormalizeUsageOk(usage) ==
    NormalizeUsage(usage) \in {USAGE_CONTEXT, USAGE_GROUND_TRUTH}

\* _normalize_split(split)
NormalizeSplit(split) == IF split = None THEN None ELSE StripLower(split)
NormalizeSplitOk(split) ==
    split = None \/ NormalizeSplit(split) \in VALID_GT_SPLITS

\* _normalize_role(role): `role_norm or None`
NormalizeRole(role) ==
    IF role = None THEN None
    ELSE IF StripLower(role) = "" THEN None ELSE StripLower(role)

\* _was_option_explicitly_set(ctx, name), on the option's ParameterSource
WasOptionExplicitlySet(source) == source \notin {"DEFAULT", "DEFAULT_MAP"}

\* (variant of GtOptionsUsed that compares the seed's value only)
GtOptionsUsedByValue(split, label_column, row_filter, sampling_seed, sampling_seed_explicit) ==
    \/ Truthy(split)
    \/ Truthy(label_column)
    \/ Truthy(row_filter)
    \/ sampling_seed # DEFAULT_GT_SAMPLING_SEED

\* _gt_options_used(split, label_column, row_filter, sampling_seed,
\*                  sampling_seed_explicit)
GtOptionsUsed(split, label_column, row_filter, sampling_seed, sampling_seed_explicit) ==
    \/ Truthy(split)
    \/ Truthy(label_column)
    \/ Truthy(row_filter)
    \/ sampling_seed_explicit
    \/ sampling_seed # DEFAULT_GT_SAMPLING_SEED

\* (variant of ResolvePushScenarioId that reads the current scenario without
\* --bind too)
ResolvePushScenarioIdWithoutBind(scenario, bind, current) ==
    IF ~Truthy(scenario) THEN current ELSE scenario

\* _resolve_push_scenario_id: the resolved id, given what
\* get_current_scenario_id() answers (asked only when bind and no scenario).
ResolvePushScenarioId(scenario, bind, current) ==
    IF bind /\ ~Truthy(scenario) THEN current ELSE scenario

\* The ground-truth entries shared by binding_meta and the materialize payload.
GtEntries(base, split, label_column, row_filter) ==
    WithKey(WithKey(WithKey(base,
        Truthy(split), "split", split),
        Truthy(label_column), "label_column", label_column),
        Truthy(row_filter), "row_filter", row_filter)

\* (variant of CreatePayload that infers the category in every usage mode)
CreatePayloadHonoursAs(file, usage_mode, as_type) ==
    LET gt == usage_mode = USAGE_GROUND_TRUTH
        data_category == InferDataCategory(file, as_type)
    IN  [ filename |-> file,
          file_type |-> InferFileType(data_category),
          mime_type |-> MimeType(file),
          file_size |-> FileSize(file),
          data_category |-> data_category,
          processing_profile |-> IF gt THEN "dataset" ELSE "auto" ]

\* create_payload of push
CreatePayload(file, usage_mode, as_type) ==
    LET gt == usage_mode = USAGE_GROUND_TRUTH
        data_category == IF gt THEN "DATASET" ELSE InferDataCategory(file, as_type)
        file_type == IF gt THEN "structured" ELSE InferFileType(data_category)
        processing_profile == IF gt THEN "dataset" ELSE "auto"
    IN  [ filename |-> file,
          file_type |-> file_type,
          mime_type |-> MimeType(file),
          file_size |-> FileSize(file),
          data_category |-> data_category,
          processing_profile |-> processing_profile ]

\* bind_payload of _bind_after_push
PushBindPayload(data_id, usage_mode, split_value, label_column, row_filter, sampling_seed) ==
    IF usage_mode = USAGE_GROUND_TRUTH
    THEN [ data_id |-> data_id,
           binding_meta |-> GtEntries([role |-> "validation",
                                       sampling_seed |-> sampling_seed],
                                      split_value, label_column, row_filter) ]
    ELSE [ data_id |-> data_id ]

\* (variant of BindPayload that records the sampling seed for every role)
BindPayloadSeedAlways(data_id, role_value, split_value, label_column, row_filter, sampling_seed) ==
    IF Truthy(role_value)
    THEN [ data_id |-> data_id,
           binding_meta |->
             IF role_value = "validation"
             THEN GtEntries([role |-> role_value, sampling_seed |-> sampling_seed],
                            split_value, label_column, row_filter)
             ELSE [role |-> role_value, sampling_seed |-> sampling_seed] ]
    ELSE [ data_id |-> data_id ]

\* bind_payload of bind
BindPayload(data_id, role_value, split_value, label_column, row_filter, sampling_seed) ==
    IF Truthy(role_value)
    THEN [ data_id |-> data_id,
           binding_meta |->
             IF role_value = "validation"
             THEN GtEntries([role |-> role_value, sampling_seed |-> sampling_seed],
                            split_value, label_column, row_filter)
             ELSE [role |-> role_value] ]
    ELSE [ data_id |-> data_id ]

\* (variant of MaterializePayload that sends the default sampling seed)
MaterializePayloadDefaultSeed(data_id, split, label_column, row_filter, sampling_seed) ==
    GtEntries([data_id |-> data_id, sampling_seed |-> DEFAULT_GT_SAMPLING_SEED],
              split, label_column, row_filter)

\* (variant of MaterializePayload that forgets the row filter)
MaterializePayloadNoRowFilter(data_id, split, label_column, row_filter, sampling_seed) ==
    GtEntries([data_id |-> data_id, sampling_seed |-> sampling_seed],
              split, label_column, None)

\* payload of _materialize_ground_truth
MaterializePayload(data_id, split, label_column, row_filter, sampling_seed) ==
    GtEntries([data_id |-> data_id, sampling_seed |-> sampling_seed],
              split, label_column, row_filter)

\* (variant of UsageConflict comparing against the wrong usage constant)
UsageConflictGtMode(usage_mode, gt_options_requested) ==
    usage_mode = USAGE_GROUND_TRUTH /\ gt_options_requested

\* push line 573: ground-truth-only options under --usage context
UsageConflict(usage_mode, gt_options_requested) ==
    usage_mode = USAGE_CONTEXT /\ gt_options_requested

\* (variant of MissingBindOrScenario that tests `scenario is None`)
MissingBindOrScenarioNoneOnly(usage_mode, bind, scenario) ==
    usage_mode = USAGE_GROUND_TRUTH /\ ~bind /\ scenario = None

\* push line 578: ground-truth needs --bind or --scenario
MissingBindOrScenario(usage_mode, bind, scenario) ==
    usage_mode = USAGE_GROUND_TRUTH /\ ~(bind \/ Truthy(scenario))

\* (variant of ScenarioBindingMissing guarding the wrong usage mode)
ScenarioBindingMissingContextOnly(usage_mode, scenario_id) ==
    usage_mode = USAGE_CONTEXT /\ ~Truthy(scenario_id)

\* _resolve_push_scenario_id line 387: ground-truth without a resolved scenario
ScenarioBindingMissing(usage_mode, scenario_id) ==
    usage_mode = USAGE_GROUND_TRUTH /\ ~Truthy(scenario_id)

\* (variant of FileCheck without the is_file() test)
FileCheckExistsOnly(file_state) ==
    IF file_state = "missing" THEN "File not found" ELSE None

\* push lines 591-596: the file check that fails, or None
FileCheck(file_state) ==
    IF file_state = "missing" THEN "File not found"
    ELSE IF file_state # "regular" THEN "Not a file"
    ELSE None

\* bind line 1034: ground-truth-only options without --role validation
RoleConflict(gt_options_requested, role_value) ==
    gt_options_requested /\ role_value # "validation"

\* (variant of ExitCode in which a parameter error exits with status 1)
ExitCodeOneOnBadParameter(how) ==
    CASE how = "BadParameter" -> 1
      [] how = "Exit(1)"      -> 1
      [] how = "Exception"    -> 1
      [] OTHER                -> 0

\* Process exit status: typer.BadParameter is a click usage error (status 2),
\* typer.Exit(1) and an uncaught exception are status 1, a normal return is
\* status 0.
ExitCode(how) ==
    CASE how = "BadParameter" -> 2
      [] how = "Exit(1)"      -> 1
      [] how = "Exception"    -> 1
      [] OTHER                -> 0

(***************************************************************************)
(* State of one command invocation.                                        *)
(***************************************************************************)
VARIABLES
    cmd,        \* the command ("push", "bind", "evaluate") or helper called
    args,       \* the parsed command line
    pc,         \* where the handler stands: the next remote call, or "done"
    local,      \* the handler's local variables
    env,        \* what the handler has read from context store and file system
    requests,   \* the remote requests issued so far, each with its response
    outcome,    \* how the command ended: "running", "ok", "Exit(1)", "BadParameter"
    output      \* the messages printed (errors and final summary)

vars == <<cmd, args, pc, local, env, requests, outcome, output>>

Unread == "<unread>"

PushArgs ==
    { [ file |-> f, as_type |-> a, scenario |-> sc, bind |-> b, usage |-> u,
        split |-> sp, label_column |-> lc, row_filter |-> rf,
        sampling_seed |-> seed[1], sampling_seed_source |-> seed[2],
        materialize_gt |-> m, project_id |-> p, role |-> None, data_id |-> None ] :
      f \in Files, a \in AsTypes, sc \in ScenarioArgs, b \in BOOLEAN,
      u \in UsageArgs, sp \in SplitArgs, lc \in LabelArgs, rf \in RowFilterArgs,
      seed \in SeedArgs, m \in BOOLEAN, p \in ProjectArgs }

BindArgs ==
    { [ file |-> None, as_type |-> None, scenario |-> sc, bind |-> FALSE,
        usage |-> USAGE_CONTEXT,
        split |-> sp, label_column |-> lc, row_filter |-> rf,
        sampling_seed |-> seed[1], sampling_seed_source |-> seed[2],
        materialize_gt |-> m, project_id |-> None, role |-> r, data_id |-> "data_9" ] :
      sc \in ScenarioArgs, sp \in SplitArgs, lc \in LabelArgs, rf \in RowFilterArgs,
      seed \in SeedArgs, m \in BOOLEAN, r \in RoleArgs }

Init ==
    /\ cmd \in {"push", "bind"}
    /\ args \in (IF cmd = "push" THEN PushArgs ELSE BindArgs)
    /\ pc = "start"
    /\ local = [ usage_mode |-> None, split_value |-> None, role_value |-> None,
                 scenario_id |-> None, project_id |-> None,
                 data_id |-> None, upload_url |-> None ]
    /\ env = [ current_scenario_id |-> Unread, current_web_project_id |-> Unread,
               file_state |-> Unread ]
    /\ requests = <<>>
    /\ outcome = "running"
    /\ output = <<>>

\* The command ends: raise typer.BadParameter / typer.Exit(1), or return.
End(how, messages) ==
    /\ pc' = "done"
    /\ outcome' = how
    /\ output' = output \o messages


(***************************************************************************)
(* data push                                                               *)
(***************************************************************************)
\* push, up to the first remote call: option validation, scenario
\* resolution, file checks and project resolution.  Nothing is requested.
PushValidate ==
    /\ cmd = "push" /\ pc = "start"
    /\ \E current_scenario \in ContextScenarios,
          current_project \in ContextProjects,
          file_state \in FileStates :
        LET usage_mode == NormalizeUsage(args.usage)
            split_value == NormalizeSplit(args.split)
            sampling_seed_explicit == WasOptionExplicitlySet(args.sampling_seed_source)
            gt_options_requested ==
                GtOptionsUsed(split_value, args.label_column, args.row_filter,
                              args.sampling_seed, sampling_seed_explicit)
            asks_context == args.bind /\ ~Truthy(args.scenario)
            scenario_id == ResolvePushScenarioId(args.scenario, args.bind, current_scenario)
            project_id == IF Truthy(args.project_id) THEN args.project_id
                          ELSE current_project
            env1 == IF asks_context
                    THEN [env EXCEPT !.current_scenario_id = current_scenario]
                    ELSE env
            env2 == [env1 EXCEPT !.file_state = file_state]
            env3 == IF Truthy(args.project_id) THEN env2
                    ELSE [env2 EXCEPT !.current_web_project_id = current_project]
            local1 == [local EXCEPT !.usage_mode = usage_mode]
            local2 == [local1 EXCEPT !.split_value = split_value]
            local3 == [local2 EXCEPT !.scenario_id = scenario_id]
        IN
        IF ~NormalizeUsageOk(args.usage) THEN
            /\ End("BadParameter", <<"--usage must be one of: context, ground-truth">>)
            /\ UNCHANGED <<local, env>>
        ELSE IF ~NormalizeSplitOk(args.split) THEN
            /\ End("BadParameter", <<"--split must be one of: train, dev, test">>)
            /\ local' = local1
            /\ UNCHANGED env
        ELSE IF UsageConflict(usage_mode, gt_options_requested) THEN
            /\ End("BadParameter", <<"--split/--label-column/--row-filter/--sampling-seed are only valid with --usage ground-truth">>)
            /\ local' = local2
            /\ UNCHANGED env
        ELSE IF MissingBindOrScenario(usage_mode, args.bind, args.scenario) THEN
            /\ End("BadParameter", <<"--usage ground-truth requires --bind or --scenario">>)
            /\ local' = local2
            /\ UNCHANGED env
        ELSE IF ScenarioBindingMissing(usage_mode, scenario_id) THEN
            /\ End("Exit(1)", <<"Ground Truth upload requires a scenario binding.">>)
            /\ local' = local2
            /\ env' = env1
        ELSE IF FileCheck(file_state) # None THEN
            /\ End("Exit(1)", <<FileCheck(file_state)>>)
            /\ local' = local3
            /\ env' = env2
        ELSE IF ~Truthy(project_id) THEN
            /\ End("Exit(1)", <<"No Web Project selected.">>)
            /\ local' = local3
            /\ env' = env3
        ELSE
            /\ pc' = "create"
            /\ local' = [local3 EXCEPT !.project_id = project_id]
            /\ env' = env3
            /\ UNCHANGED <<outcome, output>>
    /\ UNCHANGED <<cmd, args, requests>>

\* A remote call that raises (transport error) instead of answering: the
\* handler's `except Exception` prints the failure and raises typer.Exit(1).
Raised == [raised |-> TRUE, status_code |-> 0]
Answer(status_code) == [raised |-> FALSE, status_code |-> status_code]
Responses == {Raised} \cup {Answer(s) : s \in StatusCodes}

Request(step, target, json, resp) ==
    [step |-> step, target |-> target, json |-> json, resp |-> resp]

\* Step 1 of push: POST /api/projects/{project_id}/data, handle_api_error,
\* then read data.id and upload.upload_url from the answer.
PushCreate ==
    /\ cmd = "push" /\ pc = "create"
    /\ \E resp \in Responses, data_id \in {None, "data_1"},
          upload_url \in {None, "https://upload.example.com/data_1"} :
        \* a failed call carries no body
        /\ (resp.raised \/ ~IsSuccess(resp.status_code))
              => (data_id = None /\ upload_url = None)
        /\ requests' = Append(requests,
              Request("create", local.project_id,
                      CreatePayload(args.file, local.usage_mode, args.as_type),
                      resp @@ [data_id |-> data_id, upload_url |-> upload_url]))
        /\ IF resp.raised THEN
               /\ End("Exit(1)", <<"Upload failed">>)
               /\ UNCHANGED local
           ELSE IF HandleApiErrorRaises(resp.status_code) THEN
               /\ End("Exit(1)", <<"handle_api_error: data upload">>)
               /\ UNCHANGED local
           ELSE IF ~Truthy(data_id) \/ ~Truthy(upload_url) THEN
               /\ End("Exit(1)", <<"Failed to get upload URL">>)
               /\ local' = [local EXCEPT !.data_id = data_id, !.upload_url = upload_url]
           ELSE
               /\ pc' = "upload"
               /\ local' = [local EXCEPT !.data_id = data_id, !.upload_url = upload_url]
               /\ UNCHANGED <<outcome, output>>
    /\ UNCHANGED <<cmd, args, env>>


\* The completion summary of push (data_id / scenario_id / profile_id /
\* gt_contract_count), printed in ground-truth mode only.
PushSummary ==
    IF local.usage_mode = USAGE_GROUND_TRUTH
    THEN <<"Ground Truth binding complete">> ELSE <<>>

\* (variant of UploadFails that lets client errors through)
UploadFailsOnServerErrorOnly(resp) == resp.status_code >= 500

\* push line 681: the upload answer that ends the command
UploadFails(resp) == ~IsSuccess(resp.status_code)

\* Step 2 of push: PUT the file bytes to the signed upload URL.
PushUpload ==
    /\ cmd = "push" /\ pc = "upload"
    /\ \E resp \in Responses :
        /\ requests' = Append(requests,
              Request("upload", local.upload_url, [content |-> args.file], resp))
        /\ IF resp.raised THEN
               End("Exit(1)", <<"Upload failed">>)
           ELSE IF UploadFails(resp) THEN
               End("Exit(1)", <<"Upload failed">>)
           ELSE
               /\ pc' = "confirm"
               /\ UNCHANGED <<outcome, output>>
    /\ UNCHANGED <<cmd, args, local, env>>

\* Step 3 of push: POST .../data/{data_id}/confirm, handle_api_error; then
\* the handler goes on to bind when a scenario was resolved, else it ends.
PushConfirm ==
    /\ cmd = "push" /\ pc = "confirm"
    /\ \E resp \in Responses :
        /\ requests' = Append(requests,
              Request("confirm", local.data_id,
                      [ file_size |-> FileSize(args.file),
                        mime_type |-> MimeType(args.file),
                        content_hash |-> args.file ],
                      resp))
        /\ IF resp.raised THEN
               End("Exit(1)", <<"Upload failed">>)
           ELSE IF HandleApiErrorRaises(resp.status_code) THEN
               End("Exit(1)", <<"handle_api_error: upload confirmation">>)
           ELSE IF Truthy(local.scenario_id) THEN
               /\ pc' = "bind"
               /\ UNCHANGED <<outcome, output>>
           ELSE
               End("ok", PushSummary)
    /\ UNCHANGED <<cmd, args, local, env>>

\* (variant of GtBindProceeds without the 409 case)
GtBindProceedsStrict(status_code) == ~HandleApiErrorRaises(status_code)

\* Whether _bind_after_push goes on after the bind answer in ground-truth
\* mode: a 409 is "already bound", anything else goes through
\* handle_api_error.
GtBindProceeds(status_code) ==
    status_code = 409 \/ ~HandleApiErrorRaises(status_code)

\* (variant of PushBindBlocks under which a failed bind is fatal in every
\* usage mode)
PushBindBlocksAnyMode(usage_mode, status_code) ==
    ~GtBindProceeds(status_code)

\* Whether the bind answer ends push with a failure: only the ground-truth
\* branch of _bind_after_push passes the answer to handle_api_error; the
\* context branch never raises.
PushBindBlocks(usage_mode, status_code) ==
    usage_mode = USAGE_GROUND_TRUTH /\ ~GtBindProceeds(status_code)

\* What the context branch of _bind_after_push prints about the bind answer
\* (the notes that --quiet suppresses are left out).
ContextBindWarning(status_code) ==
    IF status_code = 404 THEN <<"Scenario not found">>
    ELSE IF status_code = 409 \/ IsSuccess(status_code) THEN <<>>
    ELSE <<"Binding failed">>

\* Step 4 of push (_bind_after_push): POST /api/scenarios/{id}/data/bind.
PushBind ==
    /\ cmd = "push" /\ pc = "bind"
    /\ \E resp \in Responses :
        /\ requests' = Append(requests,
              Request("bind", local.scenario_id,
                      PushBindPayload(local.data_id, local.usage_mode,
                                      local.split_value, args.label_column,
                                      args.row_filter, args.sampling_seed),
                      resp))
        /\ IF resp.raised THEN
               End("Exit(1)", <<"Upload failed">>)
           ELSE IF PushBindBlocks(local.usage_mode, resp.status_code) THEN
               End("Exit(1)", <<"handle_api_error: data binding">>)
           ELSE IF local.usage_mode = USAGE_GROUND_TRUTH THEN
               IF args.materialize_gt THEN
                   /\ pc' = "materialize"
                   /\ UNCHANGED <<outcome, output>>
               ELSE
                   End("ok", PushSummary)
           ELSE
               \* context mode: 404, 409 and any other failure are warnings
               End("ok", ContextBindWarning(resp.status_code) \o PushSummary)
    /\ UNCHANGED <<cmd, args, local, env>>

\* _materialize_ground_truth after its POST: a non-success answer prints the
\* materialize error and raises typer.Exit(1).
MaterializeFails(resp) == ~IsSuccess(resp.status_code)

\* Error details a failed materialize answer carries, as returned by
\* _extract_error_detail (the last one is its text for an empty body).
Details ==
    { "Dataset is still Processing", "Binding Role mismatch",
      "Validation binding is Pending", "No error detail provided." }

\* str.lower() on the details above.
Lower(detail) ==
    CASE detail = "Dataset is still Processing"   -> "dataset is still processing"
      [] detail = "Binding Role mismatch"         -> "binding role mismatch"
      [] detail = "Validation binding is Pending" -> "validation binding is pending"
      [] OTHER                                    -> "no error detail provided."

\* `token in text` (substring test) for the lowered details above.
Contains(text, token) ==
    <<text, token>> \in
        { <<"dataset is still processing", "processing">>,
          <<"binding role mismatch", "role">>,
          <<"validation binding is pending", "validation">>,
          <<"validation binding is pending", "pending">> }

\* The three "Next actions" groups of _print_materialize_error.
WAIT_GROUP == "1) Wait for dataset processing 2) Retry materialization once processing is completed"
ROLE_GROUP == "1) Ensure validation role binding 2) Verify current GT state"
INSPECT_GROUP == "1) Inspect processing state 2) Check GT status and retry as needed"

\* (variant of NextActions that tests the role tokens before the processing
\* tokens)
NextActionsRoleFirst(status_code, detail_lower) ==
    IF status_code = 409
       /\ \E token \in {"role", "validation"} : Contains(detail_lower, token)
    THEN ROLE_GROUP
    ELSE IF status_code = 409
       /\ \E token \in {"processing", "not ready", "pending", "queued"} :
              Contains(detail_lower, token)
    THEN WAIT_GROUP
    ELSE INSPECT_GROUP

\* The remediation group _print_materialize_error chooses: the first branch
\* that matches, each ending in `return`.
NextActions(status_code, detail_lower) ==
    IF status_code = 409
       /\ \E token \in {"processing", "not ready", "pending", "queued"} :
              Contains(detail_lower, token)
    THEN WAIT_GROUP
    ELSE IF status_code = 409
       /\ \E token \in {"role", "validation"} : Contains(detail_lower, token)
    THEN ROLE_GROUP
    ELSE INSPECT_GROUP

\* Everything _print_materialize_error prints for a failed answer.
PrintMaterializeError(resp) ==
    << "Ground Truth materialization failed (" \o ToString(resp.status_code) \o ")",
       "API detail: " \o resp.detail,
       "Next actions:",
       NextActions(resp.status_code, Lower(resp.detail)) >>

\* The answers a materialize request can get: a transport error, a success,
\* or a failure status with an error detail.
MaterializeResponses ==
    {Raised} \cup {Answer(s) : s \in {c \in StatusCodes : IsSuccess(c)}}
    \cup { Answer(s) @@ [detail |-> d] :
              s \in {c \in StatusCodes : ~IsSuccess(c)}, d \in Details }

\* Step 5 of push: POST /api/scenarios/{id}/ground-truth/materialize.
PushMaterialize ==
    /\ cmd = "push" /\ pc = "materialize"
    /\ \E resp \in MaterializeResponses :
        /\ requests' = Append(requests,
              Request("materialize", local.scenario_id,
                      MaterializePayload(local.data_id, local.split_value,
                                         args.label_column, args.row_filter,
                                         args.sampling_seed),
                      resp))
        /\ IF resp.raised THEN
               End("Exit(1)", <<"Upload failed">>)
           ELSE IF MaterializeFails(resp) THEN
               End("Exit(1)", PrintMaterializeError(resp))
           ELSE
               End("ok", PushSummary)
    /\ UNCHANGED <<cmd, args, local, env>>

(***************************************************************************)
(* data bind                                                               *)
(***************************************************************************)
\* bind, up to its first remote call: role/option validation and scenario
\* resolution.
BindValidate ==
    /\ cmd = "bind" /\ pc = "start"
    /\ \E current_scenario \in ContextScenarios :
        LET role_value == NormalizeRole(args.role)
            split_value == NormalizeSplit(args.split)
            sampling_seed_explicit == WasOptionExplicitlySet(args.sampling_seed_source)
            gt_options_requested ==
                GtOptionsUsed(split_value, args.label_column, args.row_filter,
                              args.sampling_seed, sampling_seed_explicit)
            scenario_id == IF Truthy(args.scenario) THEN args.scenario
                           ELSE current_scenario
            local1 == [local EXCEPT !.role_value = role_value]
            local2 == [local1 EXCEPT !.split_value = split_value]
            env1 == IF Truthy(args.scenario) THEN env
                    ELSE [env EXCEPT !.current_scenario_id = current_scenario]
        IN
        IF ~NormalizeSplitOk(args.split) THEN
            /\ End("BadParameter", <<"--split must be one of: train, dev, test">>)
            /\ local' = local1
            /\ UNCHANGED env
        ELSE IF RoleConflict(gt_options_requested, role_value) THEN
            /\ End("BadParameter", <<"--split/--label-column/--row-filter/--sampling-seed require --role validation">>)
            /\ local' = local2
            /\ UNCHANGED env
        ELSE IF ~Truthy(scenario_id) THEN
            /\ End("Exit(1)", <<"No scenario selected.">>)
            /\ local' = local2
            /\ env' = env1
        ELSE
            /\ pc' = "bind"
            /\ local' = [local2 EXCEPT !.scenario_id = scenario_id,
                                       !.data_id = args.data_id]
            /\ env' = env1
            /\ UNCHANGED <<outcome, output>>
    /\ UNCHANGED <<cmd, args, requests>>

\* The completion summary of bind: the validation (GT) summary, or the plain
\* data/scenario identifiers.
BindSummary ==
    IF local.role_value = "validation"
    THEN <<"Validation (GT) binding complete">> ELSE <<"Data ID / Scenario ID">>

\* (variant of BindProceeds without the 409 case)
BindProceedsStrict(status_code) == ~HandleApiErrorRaises(status_code)

\* Whether bind goes on after the bind answer: a 409 is "already bound",
\* anything else goes through handle_api_error.
BindProceeds(status_code) ==
    status_code = 409 \/ ~HandleApiErrorRaises(status_code)

\* (variant of BindMaterializes that materializes under every role)
BindMaterializesAnyRole(role_value, materialize_gt) == materialize_gt

\* Whether bind calls _materialize_ground_truth after the bind answer.
BindMaterializes(role_value, materialize_gt) ==
    role_value = "validation" /\ materialize_gt

\* bind: POST /api/scenarios/{id}/data/bind and what follows its answer.
BindRequest ==
    /\ cmd = "bind" /\ pc = "bind"
    /\ \E resp \in Responses :
        /\ requests' = Append(requests,
              Request("bind", local.scenario_id,
                      BindPayload(local.data_id, local.role_value,
                                  local.split_value, args.label_column,
                                  args.row_filter, args.sampling_seed),
                      resp))
        /\ IF resp.raised THEN
               End("Exit(1)", <<"Binding failed">>)
           ELSE IF ~BindProceeds(resp.status_code) THEN
               End("Exit(1)", <<"handle_api_error: data binding">>)
           ELSE IF BindMaterializes(local.role_value, args.materialize_gt) THEN
               /\ pc' = "materialize"
               /\ UNCHANGED <<outcome, output>>
           ELSE
               End("ok", BindSummary)
    /\ UNCHANGED <<cmd, args, local, env>>

\* bind: the materialize call of a validation-role bind.
BindMaterialize ==
    /\ cmd = "bind" /\ pc = "materialize"
    /\ \E resp \in MaterializeResponses :
        /\ requests' = Append(requests,
              Request("materialize", local.scenario_id,
                      MaterializePayload(local.data_id, local.split_value,
                                         args.label_column, args.row_filter,
                                         args.sampling_seed),
                      resp))
        /\ IF resp.raised THEN
               End("Exit(1)", <<"Binding failed">>)
           ELSE IF MaterializeFails(resp) THEN
               End("Exit(1)", PrintMaterializeError(resp))
           ELSE
               End("ok", BindSummary)
    /\ UNCHANGED <<cmd, args, local, env>>

Next ==
    \/ PushValidate
    \/ PushCreate
    \/ PushUpload
    \/ PushConfirm
    \/ PushBind
    \/ PushMaterialize
    \/ BindValidate
    \/ BindRequest
    \/ BindMaterialize

Spec == Init /\ [][Next]_vars

(***************************************************************************)
(* Ground-truth helpers: _extract_gt_contract_ids, _build_gt_status_rows.  *)
(* A decoded JSON body is a Python value, kept here with its type.         *)
(***************************************************************************)
PyNone == [type |-> "NoneType"]
PyStr(s) == [type |-> "str", value |-> s]
PyInt(n) == [type |-> "int", value |-> n]
PyList(items) == [type |-> "list", value |-> items]
PyDict(entries) == [type |-> "dict", value |-> entries]

\* isinstance(value, type)
IsInstance(value, type) == value.type = type

\* bool(value): None, "", 0, [] and {} are false.
PyTruthy(value) ==
    CASE value.type = "NoneType" -> FALSE
      [] value.type = "str"      -> value.value # ""
      [] value.type = "int"      -> value.value # 0
      [] value.type = "list"     -> Len(value.value) > 0
      [] OTHER                   -> DOMAIN value.value # {}

\* `a or b`
PyOr(a, b) == IF PyTruthy(a) THEN a ELSE b

\* dict.get(key, default) and dict.get(key)
GetOr(dict, key, default) ==
    IF key \in DOMAIN dict.value THEN dict.value[key] ELSE default
Get(dict, key) == GetOr(dict, key, PyNone)

\* `isinstance(value, str) and value`
IsNonEmptyStr(value) == IsInstance(value, "str") /\ PyTruthy(value)

\* Longest list in the bodies the helpers are applied to.
MaxItems == 2

\* All lists of at most n elements of a set.
ListsUpTo(elements, n) ==
    UNION { [1..k -> elements] : k \in 0..n }

\* Elements a `gt_contracts` list may hold: ids, contract objects keyed by
\* `id` or by `contract_id`, and values that are neither.
ContractElements ==
    { PyStr("c1"), PyStr("c2"), PyStr(""), PyInt(7),
      PyDict([id |-> PyStr("c1")]),
      PyDict([contract_id |-> PyStr("c3")]),
      PyDict([id |-> PyStr(""), contract_id |-> PyStr("c2")]),
      PyDict([id |-> PyInt(7), contract_id |-> PyStr("c3")]) }

\* Elements a `gt_contract_ids` list may hold.
ContractIdElements == { PyStr("c1"), PyStr("c2"), PyStr(""), PyInt(7) }

\* The id one element of `gt_contracts` contributes (none when it is not a
\* non-empty string or an object with one).
ContractIdsOf(contract) ==
    IF IsNonEmptyStr(contract) THEN <<contract>>
    ELSE IF IsInstance(contract, "dict") THEN
        LET contract_id == PyOr(Get(contract, "id"), Get(contract, "contract_id"))
        IN  IF IsNonEmptyStr(contract_id) THEN <<contract_id>> ELSE <<>>
    ELSE <<>>

\* The first loop of _extract_gt_contract_ids, over `gt_contracts`.
RECURSIVE IdsOfContracts(_)
IdsOfContracts(contracts) ==
    IF Len(contracts) = 0 THEN <<>>
    ELSE ContractIdsOf(Head(contracts)) \o IdsOfContracts(Tail(contracts))

\* The last loop of _extract_gt_contract_ids: keep the first occurrence of
\* every id.
RECURSIVE UniqueIds(_, _, _)
UniqueIds(ids, seen, unique_ids) ==
    IF Len(ids) = 0 THEN unique_ids
    ELSE LET contract_id == Head(ids) IN
         IF contract_id \notin seen
         THEN UniqueIds(Tail(ids), seen \cup {contract_id},
                        Append(unique_ids, contract_id))
         ELSE UniqueIds(Tail(ids), seen, unique_ids)

\* The ids _extract_gt_contract_ids collects before removing duplicates.
CollectedIds(payload) ==
    LET contracts == Get(payload, "gt_contracts")
        contract_ids == Get(payload, "gt_contract_ids")
    IN  (IF IsInstance(contracts, "list")
         THEN IdsOfContracts(contracts.value) ELSE <<>>)
        \o (IF IsInstance(contract_ids, "list")
            THEN SelectSeq(contract_ids.value, IsNonEmptyStr) ELSE <<>>)

\* (variant of _extract_gt_contract_ids that returns every collected id)
ExtractGtContractIdsKeepAll(payload) == CollectedIds(payload)

\* _extract_gt_contract_ids
ExtractGtContractIds(payload) == UniqueIds(CollectedIds(payload), {}, <<>>)

\* The id one element of `gt_contracts` contributes in _build_gt_status_rows,
\* which reads only the `id` key of a contract object.
StatusContractIdsOf(contract) ==
    IF IsNonEmptyStr(contract) THEN <<contract>>
    ELSE IF IsInstance(contract, "dict") THEN
        LET contract_id == Get(contract, "id")
        IN  IF IsNonEmptyStr(contract_id) THEN <<contract_id>> ELSE <<>>
    ELSE <<>>

\* The `gt_contracts` loop of _build_gt_status_rows.
RECURSIVE StatusIdsOfContracts(_)
StatusIdsOfContracts(contracts) ==
    IF Len(contracts) = 0 THEN <<>>
    ELSE StatusContractIdsOf(Head(contracts))
         \o StatusIdsOfContracts(Tail(contracts))

\* contract_ids of one status item: `gt_contract_ids` when it is a list,
\* else `gt_contracts` when that is one.
StatusContractIds(item) ==
    LET gt_contract_ids == Get(item, "gt_contract_ids") IN
    IF IsInstance(gt_contract_ids, "list")
    THEN SelectSeq(gt_contract_ids.value, IsNonEmptyStr)
    ELSE IF IsInstance(Get(item, "gt_contracts"), "list")
    THEN StatusIdsOfContracts(Get(item, "gt_contracts").value)
    ELSE <<>>

\* profile_id of one status item: `ground_truth_profile_id`, else the nested
\* `profile.id`.
StatusProfileId(item) ==
    LET given == Get(item, "ground_truth_profile_id")
        profile_id == IF ~IsInstance(given, "str") THEN PyNone ELSE given
        profile == Get(item, "profile")
        nested_profile_id == IF IsInstance(profile, "dict")
                             THEN Get(profile, "id") ELSE PyNone
    IN  IF ~PyTruthy(profile_id) /\ IsNonEmptyStr(nested_profile_id)
        THEN nested_profile_id ELSE profile_id

\* (variant of StatusDataId that ignores the caller's fallback)
StatusDataIdNoFallback(item, fallback_data_id) ==
    LET item_data_id == Get(item, "data_id") IN
    IF ~IsNonEmptyStr(item_data_id) THEN PyStr("N/A") ELSE item_data_id

\* data_id of one status item.
StatusDataId(item, fallback_data_id) ==
    LET item_data_id == Get(item, "data_id") IN
    IF ~IsInstance(item_data_id, "str") \/ ~PyTruthy(item_data_id)
    THEN PyOr(fallback_data_id, PyStr("N/A"))
    ELSE item_data_id

\* The row _build_gt_status_rows appends for one dict item.
StatusRow(item, fallback_data_id) ==
    [ data_id |-> StatusDataId(item, fallback_data_id),
      materialization_status |-> GetOr(item, "materialization_status", PyStr("unknown")),
      ground_truth_profile_id |-> PyOr(StatusProfileId(item), PyStr("-")),
      gt_contract_count |-> Len(StatusContractIds(item)),
      processing_status |-> GetOr(item, "processing_status", PyStr("unknown")),
      updated_at |-> GetOr(item, "updated_at", PyStr("-")),
      gt_contract_ids |-> StatusContractIds(item) ]

\* raw_items of _build_gt_status_rows: the classification of the payload.
RawItems(payload) ==
    IF IsInstance(payload, "list") THEN payload.value
    ELSE IF IsInstance(payload, "dict") THEN
        IF IsInstance(Get(payload, "items"), "list")
        THEN Get(payload, "items").value
        ELSE IF IsInstance(Get(payload, "statuses"), "list")
        THEN Get(payload, "statuses").value
        ELSE <<payload>>
    ELSE <<>>

\* The loop of _build_gt_status_rows over raw_items.
RECURSIVE RowsOf(_, _)
RowsOf(raw_items, fallback_data_id) ==
    IF Len(raw_items) = 0 THEN <<>>
    ELSE LET item == Head(raw_items)
             rest == RowsOf(Tail(raw_items), fallback_data_id)
         IN  IF ~IsInstance(item, "dict") THEN rest
             ELSE <<StatusRow(item, fallback_data_id)>> \o rest

\* _build_gt_status_rows
BuildGtStatusRows(payload, fallback_data_id) ==
    RowsOf(RawItems(payload), fallback_data_id)

\* Bodies _extract_gt_contract_ids is applied to: a materialize result with
\* `gt_contracts` and `gt_contract_ids` each a list or something else.
ExtractPayloads ==
    { PyDict([gt_contracts |-> contracts, gt_contract_ids |-> contract_ids]) :
        contracts \in {PyList(l) : l \in ListsUpTo(ContractElements, MaxItems)}
                      \cup {PyNone},
        contract_ids \in {PyList(l) : l \in ListsUpTo(ContractIdElements, MaxItems)}
                         \cup {PyStr("c1")} }
    \cup { PyDict([status |-> PyStr("ok")]) }

\* Status records with every field present and well-typed, or with fields
\* missing, empty or of another type.
StatusRecords ==
    { PyDict([data_id |-> PyStr("d1"), materialization_status |-> PyStr("ready"),
              ground_truth_profile_id |-> PyStr("p1"),
              processing_status |-> PyStr("completed"),
              updated_at |-> PyStr("t1")]),
      PyDict([data_id |-> PyStr(""), profile |-> PyDict([id |-> PyStr("p2")])]),
      PyDict([data_id |-> PyInt(7), ground_truth_profile_id |-> PyInt(7),
              profile |-> PyStr("p3"), materialization_status |-> PyNone]),
      PyDict([ground_truth_profile_id |-> PyStr(""),
              profile |-> PyDict([id |-> PyStr("")])]) }

\* The contract fields a status record may carry.
StatusContractFields ==
    { [gt_contract_ids |-> PyList(l)] : l \in ListsUpTo(ContractIdElements, MaxItems) }
    \cup { [gt_contracts |-> PyList(l)] : l \in ListsUpTo(ContractElements, MaxItems) }
    \cup { [gt_contract_ids |-> PyList(<<>>), gt_contracts |-> PyList(<<PyStr("c1")>>)],
           [gt_contract_ids |-> PyStr("c1"), gt_contracts |-> PyList(<<PyStr("c1")>>)] }

\* Elements of a status list: records, with or without contracts, and
\* values that are not records.
StatusItems ==
    StatusRecords
    \cup { PyDict([data_id |-> PyStr("d2"),
                   gt_contract_ids |-> PyList(<<PyStr("c1"), PyStr("c1")>>)]),
           PyStr("d1"), PyNone }

\* Bodies _build_gt_status_rows is applied to: a list, a dict with `items`,
\* a dict with `statuses`, a single record, and values that are none of
\* these.
StatusPayloads ==
    LET lists == {PyList(l) : l \in ListsUpTo(StatusItems, MaxItems)} IN
    lists
    \cup { PyDict([items |-> l]) : l \in lists }
    \cup { PyDict([statuses |-> l]) : l \in lists }
    \cup { PyDict([items |-> PyStr("none"), statuses |-> l]) : l \in lists }
    \cup { PyDict(record.value @@ fields) :
             record \in StatusRecords, fields \in StatusContractFields }
    \cup StatusRecords
    \cup { PyStr("error"), PyInt(0), PyNone }

\* The caller's fallback_data_id: gt status passes --data-id, which may be
\* absent or empty.
FallbackDataIds == { PyNone, PyStr(""), PyStr("d9") }

\* A call of one of the two helpers on a decoded body.
InitGt ==
    /\ cmd \in {"_extract_gt_contract_ids", "_build_gt_status_rows"}
    /\ args \in (IF cmd = "_extract_gt_contract_ids"
                 THEN [payload : ExtractPayloads, fallback_data_id : {PyNone}]
                 ELSE [payload : StatusPayloads, fallback_data_id : FallbackDataIds])
    /\ pc = "call"
    /\ local = [returned |-> <<>>]
    /\ env = [ current_scenario_id |-> Unread, current_web_project_id |-> Unread,
               file_state |-> Unread ]
    /\ requests = <<>>
    /\ outcome = "running"
    /\ output = <<>>

\* _extract_gt_contract_ids(payload) returns.
CallExtractGtContractIds ==
    /\ cmd = "_extract_gt_contract_ids" /\ pc = "call"
    /\ local' = [returned |-> ExtractGtContractIds(args.payload)]
    /\ pc' = "returned"
    /\ outcome' = "ok"
    /\ UNCHANGED <<cmd, args, env, requests, output>>

\* _build_gt_status_rows(payload, fallback_data_id=...) returns.
CallBuildGtStatusRows ==
    /\ cmd = "_build_gt_status_rows" /\ pc = "call"
    /\ local' = [returned |-> BuildGtStatusRows(args.payload, args.fallback_data_id)]
    /\ pc' = "returned"
    /\ outcome' = "ok"
    /\ UNCHANGED <<cmd, args, env, requests, output>>

NextGt ==
    \/ CallExtractGtContractIds
    \/ CallBuildGtStatusRows

SpecGt == InitGt /\ [][NextGt]_vars

(***************************************************************************)
(* Decision rendering: _decision_is_empty, _normalize_gate_reason,         *)
(* _render_decision_text. A reason text is kept as the sequence of its     *)
(* lexemes (words, digits, separators, blanks), so that split, strip and   *)
(* the digit test are computed as the code computes them.                  *)
(***************************************************************************)
\* A str value kept as a sequence of lexemes.
PyText(lexemes) == [type |-> "str", value |-> lexemes]

\* The lexemes that are decimal digits.
Digits == {"1", "2", "7"}

\* str.lstrip(), str.rstrip(), str.strip()
RECURSIVE LStrip(_)
LStrip(text) ==
    IF Len(text) > 0 /\ Head(text) = " " THEN LStrip(Tail(text)) ELSE text

RECURSIVE RStrip(_)
RStrip(text) ==
    IF Len(text) > 0 /\ text[Len(text)] = " "
    THEN RStrip(SubSeq(text, 1, Len(text) - 1)) ELSE text

Strip(text) == RStrip(LStrip(text))

\* str.replace(old, new) for single lexemes
Replace(text, old, new) ==
    [i \in 1..Len(text) |-> IF text[i] = old THEN new ELSE text[i]]

\* str.split(sep)
RECURSIVE Split(_, _)
Split(text, sep) ==
    IF \A i \in 1..Len(text) : text[i] # sep THEN <<text>>
    ELSE LET k == CHOOSE i \in 1..Len(text) :
                      text[i] = sep /\ \A j \in 1..(i - 1) : text[j] # sep
         IN  <<SubSeq(text, 1, k - 1)>> \o Split(SubSeq(text, k + 1, Len(text)), sep)

\* str.isdigit()
IsDigit(text) == Len(text) > 0 /\ \A i \in 1..Len(text) : text[i] \in Digits

\* str(item) of an entry of `reasons` or of `reason`.
Str(value) ==
    CASE value.type = "str"      -> value.value
      [] value.type = "int"      -> <<ToString(value.value)>>
      [] value.type = "NoneType" -> <<"None">>
      [] OTHER                   -> <<"{...}">>

\* The stripped, non-empty members of a sequence of texts.
RECURSIVE StrippedNonEmpty(_)
StrippedNonEmpty(texts) ==
    IF Len(texts) = 0 THEN <<>>
    ELSE (IF Len(Strip(Head(texts))) > 0 THEN <<Strip(Head(texts))>> ELSE <<>>)
         \o StrippedNonEmpty(Tail(texts))

\* tokens of _normalize_gate_reason, for a `reasons` list and for a `reason`
\* value.
ReasonsTokens(raw_reasons) ==
    StrippedNonEmpty([i \in 1..Len(raw_reasons) |-> Str(raw_reasons[i])])

ReasonTokens(raw_reason) ==
    StrippedNonEmpty(Split(Replace(Str(raw_reason), ";", ","), ","))

\* (variant of CleanToken that keeps the count suffix)
CleanTokenKeepSuffix(token) == token

\* `clean` of one token: the token without its last ":<digits>" part.
CleanToken(token) ==
    IF \E i \in 1..Len(token) : token[i] = ":" THEN
        LET k == CHOOSE i \in 1..Len(token) :
                     token[i] = ":" /\ \A j \in (i + 1)..Len(token) : token[j] # ":"
            prefix == SubSeq(token, 1, k - 1)
            suffix == SubSeq(token, k + 1, Len(token))
        IN  IF IsDigit(Strip(suffix)) THEN Strip(prefix) ELSE token
    ELSE token

\* The loop of _normalize_gate_reason over the tokens.
RECURSIVE NormalizedTokens(_, _, _)
NormalizedTokens(tokens, seen, normalized) ==
    IF Len(tokens) = 0 THEN normalized
    ELSE LET clean == CleanToken(Head(tokens)) IN
         IF Len(clean) > 0 /\ clean \notin seen
         THEN NormalizedTokens(Tail(tokens), seen \cup {clean}, Append(normalized, clean))
         ELSE NormalizedTokens(Tail(tokens), seen, normalized)

\* ", ".join(normalized)
RECURSIVE Join(_)
Join(texts) ==
    IF Len(texts) = 0 THEN <<>>
    ELSE IF Len(texts) = 1 THEN Head(texts)
    ELSE Head(texts) \o <<",", " ">> \o Join(Tail(texts))

\* (variant of GateTokens that prefers `reason` to `reasons`)
GateTokensReasonFirst(gate_result) ==
    IF Get(gate_result, "reason") # PyNone
    THEN ReasonTokens(Get(gate_result, "reason"))
    ELSE IF IsInstance(Get(gate_result, "reasons"), "list")
    THEN ReasonsTokens(Get(gate_result, "reasons").value)
    ELSE <<>>

\* tokens of a gate result: from `reasons` when it is a list, else from
\* `reason` (none when that is None).
GateTokens(gate_result) ==
    IF IsInstance(Get(gate_result, "reasons"), "list")
    THEN ReasonsTokens(Get(gate_result, "reasons").value)
    ELSE IF Get(gate_result, "reason") # PyNone
    THEN ReasonTokens(Get(gate_result, "reason"))
    ELSE <<>>

\* _normalize_gate_reason: None, or the joined reason.
NormalizeGateReason(gate_result) ==
    LET normalized == NormalizedTokens(GateTokens(gate_result), {}, <<>>) IN
    IF Len(normalized) = 0 THEN PyNone ELSE PyText(Join(normalized))

\* The text a sequence of lexemes stands for.
RECURSIVE Flatten(_)
Flatten(text) ==
    IF Len(text) = 0 THEN "" ELSE Head(text) \o Flatten(Tail(text))

\* (variant of DecisionIsEmpty that does not look at gate_snapshot)
DecisionIsEmptyIgnoringGateSnapshot(payload) ==
    IF ~IsInstance(payload, "dict") THEN TRUE
    ELSE \A key \in {"release_decision", "decision_snapshot",
                     "gate_results_snapshot"} : Get(payload, key) = PyNone

\* _decision_is_empty
DecisionIsEmpty(payload) ==
    IF ~IsInstance(payload, "dict") THEN TRUE
    ELSE \A key \in {"release_decision", "decision_snapshot", "gate_snapshot",
                     "gate_results_snapshot"} : Get(payload, key) = PyNone

\* _format_budget_value for the int and str values of the bodies below.
FormatBudgetValue(key, value) ==
    IF IsInstance(value, "int") THEN ToString(value.value) ELSE value.value

\* decision_snapshot of _render_decision_text: the field when it is a dict,
\* else {}.
DecisionSnapshot(payload) ==
    IF IsInstance(Get(payload, "decision_snapshot"), "dict")
    THEN Get(payload, "decision_snapshot") ELSE PyDict([none |-> PyNone])

\* (variant of GateResults that prefers decision_snapshot.gate_results)
GateResultsSnapshotFirst(payload) ==
    LET snapshot_gate_results == Get(DecisionSnapshot(payload), "gate_results")
        gate_results == Get(payload, "gate_results_snapshot")
    IN  IF IsInstance(snapshot_gate_results, "list") THEN snapshot_gate_results.value
        ELSE IF IsInstance(gate_results, "list") THEN gate_results.value
        ELSE <<>>

\* gate_results of _render_decision_text.
GateResults(payload) ==
    LET gate_results == Get(payload, "gate_results_snapshot")
        snapshot_gate_results == Get(DecisionSnapshot(payload), "gate_results")
    IN  IF IsInstance(gate_results, "list") THEN gate_results.value
        ELSE IF IsInstance(snapshot_gate_results, "list") THEN snapshot_gate_results.value
        ELSE <<>>

\* The line of one gate result.
GateLine(gate_result) ==
    LET gate_key == PyOr(PyOr(Get(gate_result, "gate_key"),
                              Get(gate_result, "metric_key")), PyStr("unknown_gate"))
        status == PyOr(Get(gate_result, "status"), PyStr("unknown"))
        reason == NormalizeGateReason(gate_result)
    IN  " - " \o gate_key.value \o " => " \o status.value
        \o (IF reason # PyNone THEN " (" \o Flatten(reason.value) \o ")" ELSE "")

\* The loop of _render_decision_text over the gate results.
RECURSIVE GateLines(_)
GateLines(gate_results) ==
    IF Len(gate_results) = 0 THEN <<>>
    ELSE (IF IsInstance(Head(gate_results), "dict")
          THEN <<GateLine(Head(gate_results))>> ELSE <<>>)
         \o GateLines(Tail(gate_results))

\* The budget rows of _render_decision_text.
BudgetRows(metrics) ==
    LET Row(metric_key) ==
            IF Get(metrics, metric_key) = PyNone THEN <<>>
            ELSE << " - " \o metric_key \o ": "
                    \o FormatBudgetValue(metric_key, Get(metrics, metric_key)) >>
    IN  Row("tokens_used") \o Row("cost_usd") \o Row("latency_ms")

\* _render_decision_text, as the sequence of its lines.
RenderDecisionText(payload) ==
    LET decision_snapshot == DecisionSnapshot(payload)
        release_decision == PyOr(Get(payload, "release_decision"),
                                 Get(decision_snapshot, "release_decision"))
        overall_verdict == Get(decision_snapshot, "overall_verdict")
        gate_results == GateResults(payload)
        metrics == Get(decision_snapshot, "metrics")
        budget_rows == IF IsInstance(metrics, "dict") THEN BudgetRows(metrics) ELSE <<>>
    IN  << "Release Decision: " \o PyOr(release_decision, PyStr("unknown")).value,
           "Overall Verdict: " \o PyOr(overall_verdict, PyStr("unknown")).value,
           "", "Gates:" >>
        \o (IF Len(gate_results) > 0 THEN GateLines(gate_results) ELSE <<" - (none)">>)
        \o <<"", "Budget:">>
        \o (IF Len(budget_rows) > 0 THEN budget_rows ELSE <<" - N/A">>)

(***************************************************************************)
(* evaluate: trigger, then (--wait) the poll loop.                         *)
(***************************************************************************)
\* --timeout values tried, in seconds on the model's clock.
MaxTimeout == 2
Timeouts == {MaxTimeout}

\* --poll-interval values tried.
PollIntervals == {1, 2}

\* (variant of TERMINAL_STATUSES without "cancelled")
TerminalStatusesWithoutCancelled == {"completed", "partial", "failed"}

\* The statuses on which the poll loop breaks.
TERMINAL_STATUSES == {"completed", "partial", "failed", "cancelled"}

\* A queued job older than this many seconds with no worker lock draws the
\* backlog warning.
BACKLOG_AGE_SECONDS == 30

NOT_VISIBLE == "Evaluation job not visible yet. Retrying..."
BACKLOG_WARNING == "queued - Worker may not be running or backlog is high"
WAITING_LABEL == "Waiting for evaluation job..."
TIMED_OUT == "Timed out waiting for evaluation job."

EvalArgs ==
    [ experiment_id : {"exp_1"}, project_id : {None, "proj_1"},
      wait : BOOLEAN, timeout : Timeouts, poll_interval : PollIntervals,
      show_decision : BOOLEAN, json_output : BOOLEAN ]

\* Timestamps of a job record are named by their age when the poll reads
\* them: "31s ago", "30s ago", "5s ago".
\* _parse_iso_datetime and the age computed from it: None for a missing
\* value, else the seconds elapsed since the timestamp.
AgeSeconds(value) ==
    IF ~PyTruthy(value) THEN PyNone
    ELSE CASE value.value = "30s ago" -> PyInt(30)
           [] value.value = "31s ago" -> PyInt(31)
           [] OTHER                   -> PyInt(5)

\* A job record of the listing.
Job(id, status, progress, created_at, locked_at) ==
    PyDict([id |-> PyStr(id), status |-> status, progress |-> progress,
            created_at |-> created_at, locked_at |-> locked_at])

\* Records the triggered job may be listed with: waiting in the queue (old
\* or recent, locked by a worker or not, or without a status), running with
\* progress, in a status the client does not know, or terminal.
TriggeredJobs ==
    { Job("eval_1", PyStr("queued"), PyNone, created_at, PyNone) :
        created_at \in {PyNone, PyStr("30s ago"), PyStr("31s ago")} }
    \cup { Job("eval_1", PyStr("queued"), PyNone, PyStr("31s ago"), PyStr("5s ago")),
           Job("eval_1", PyNone, PyNone, PyStr("31s ago"), PyNone),
           Job("eval_1", PyStr("paused"), PyNone, PyStr("31s ago"), PyNone),
           Job("eval_1", PyStr("running"),
               PyDict([total |-> PyInt(2), completed |-> PyInt(1), failed |-> PyInt(0)]),
               PyStr("31s ago"), PyStr("5s ago")),
           Job("eval_1", PyStr("running"),
               PyDict([total |-> PyInt(2), completed |-> PyInt(2), failed |-> PyInt(1)]),
               PyStr("31s ago"), PyNone),
           Job("eval_1", PyStr("completed"), PyNone, PyStr("31s ago"), PyNone) }
    \cup { Job("eval_1", PyStr(status), PyNone, PyStr("31s ago"), PyStr("5s ago")) :
             status \in {"partial", "failed", "cancelled"} }

\* An earlier evaluation of the same experiment, present in every listing.
OtherJob == Job("eval_0", PyStr("completed"), PyNone, PyStr("31s ago"), PyStr("5s ago"))

\* Answers to the job-list request: a transport error, a failure status, or
\* a listing with or without the triggered job.
JobListResponses ==
    {Raised} \cup {Answer(500)}
    \cup { Answer(200) @@ [jobs |-> <<OtherJob>>] }
    \cup { Answer(200) @@ [jobs |-> <<OtherJob, job>>] : job \in TriggeredJobs }

\* Answers to the trigger request.
TriggerResponses ==
    { Answer(200) @@ [evaluation_id |-> "eval_1"],
      Answer(200) @@ [evaluation_id |-> None],
      Answer(500) @@ [evaluation_id |-> None] }

\* next((j for j in jobs if j.get("id") == evaluation_id), None)
RECURSIVE FindJob(_, _)
FindJob(jobs, evaluation_id) ==
    IF Len(jobs) = 0 THEN PyNone
    ELSE IF Get(Head(jobs), "id") = PyStr(evaluation_id) THEN Head(jobs)
    ELSE FindJob(Tail(jobs), evaluation_id)

\* status = job.get("status") or "queued"
JobStatus(job) == PyOr(Get(job, "status"), PyStr("queued")).value

\* (variant of StatusLine without the progress counters)
StatusLineStatusOnly(job) == JobStatus(job)

\* The status line of a poll: the status, then "(completed/total[, failed
\* n])" when the job reports a total.
StatusLine(job) ==
    LET progress == PyOr(Get(job, "progress"), PyDict([none |-> PyNone]))
        total == Get(progress, "total")
        completed == Get(progress, "completed")
        failed == Get(progress, "failed")
    IN  IF total # PyNone
        THEN JobStatus(job) \o " (" \o ToString(PyOr(completed, PyInt(0)).value)
             \o "/" \o ToString(total.value)
             \o (IF PyTruthy(failed) THEN ", failed " \o ToString(failed.value) ELSE "")
             \o ")"
        ELSE JobStatus(job)

\* (variant of BacklogSuspected that ignores the worker lock)
BacklogSuspectedIgnoringLock(job) ==
    /\ AgeSeconds(Get(job, "created_at")) # PyNone
    /\ AgeSeconds(Get(job, "created_at")).value > BACKLOG_AGE_SECONDS

\* The test the loop makes on a queued job before warning: created_at
\* parsed, no locked_at, and more than 30 seconds old.
BacklogSuspected(job) ==
    /\ AgeSeconds(Get(job, "created_at")) # PyNone
    /\ AgeSeconds(Get(job, "locked_at")) = PyNone
    /\ AgeSeconds(Get(job, "created_at")).value > BACKLOG_AGE_SECONDS

\* (variant of SpinnerPrints that prints every update)
SpinnerPrintsAlways(spinner, text) ==
    IF spinner.interactive THEN <<>> ELSE <<text>>

\* What SpinnerStatus.update prints: in non-interactive mode, the text when
\* it differs from the last printed one; in interactive mode nothing (the
\* live label is replaced).
SpinnerPrints(spinner, text) ==
    IF spinner.interactive THEN <<>>
    ELSE IF text # spinner.last_printed THEN <<text>> ELSE <<>>

\* The spinner after SpinnerStatus.update.
SpinnerUpdate(spinner, text) ==
    IF spinner.interactive THEN [spinner EXCEPT !.label = text]
    ELSE IF text # spinner.last_printed THEN [spinner EXCEPT !.last_printed = text]
    ELSE spinner

InitEval ==
    /\ cmd = "evaluate"
    /\ args \in EvalArgs
    /\ pc = "start"
    /\ local = [ project_id |-> None, evaluation_id |-> None, start |-> 0,
                 warned |-> FALSE, status |-> None, job |-> PyNone,
                 insight_headline |-> PyNone,
                 spinner |-> [interactive |-> FALSE, label |-> None,
                              last_printed |-> None] ]
    /\ \E interactive \in BOOLEAN :
          env = [ current_web_project_id |-> Unread, file_state |-> Unread,
                  current_scenario_id |-> Unread,
                  interactive |-> interactive, monotonic |-> 0 ]
    /\ requests = <<>>
    /\ outcome = "running"
    /\ output = <<>>

\* What follows the poll loop, or the trigger without --wait: the decision
\* when --show-decision is given, else the end of the command.
AfterResults(messages) ==
    IF args.show_decision THEN
        /\ pc' = "decision"
        /\ output' = output \o messages
        /\ UNCHANGED outcome
    ELSE
        End("ok", messages \o (IF args.json_output
                               THEN <<"--json is ignored without --show-decision.">>
                               ELSE <<>>))

\* evaluate up to the poll loop: project resolution, the trigger request,
\* and entering the spinner.
EvalTrigger ==
    /\ cmd = "evaluate" /\ pc = "start"
    /\ \E current_project \in ContextProjects :
        LET project_id == IF Truthy(args.project_id) THEN args.project_id
                          ELSE current_project
            env1 == IF Truthy(args.project_id) THEN env
                    ELSE [env EXCEPT !.current_web_project_id = current_project]
        IN
        IF ~Truthy(project_id) THEN
            /\ End("Exit(1)", <<"No Web Project selected.">>)
            /\ env' = env1
            /\ UNCHANGED <<local, requests>>
        ELSE \E resp \in TriggerResponses :
            /\ requests' = Append(requests,
                  Request("trigger", "/api/evaluations",
                          [project_id |-> project_id,
                           experiment_id |-> args.experiment_id], resp))
            /\ env' = env1
            /\ IF HandleApiErrorRaises(resp.status_code) THEN
                   /\ End("Exit(1)", <<"handle_api_error: evaluation">>)
                   /\ local' = [local EXCEPT !.project_id = project_id]
               ELSE IF ~args.wait THEN
                   /\ AfterResults(<<"Evaluation triggered">>)
                   /\ local' = [local EXCEPT !.project_id = project_id]
               ELSE IF ~Truthy(resp.evaluation_id) THEN
                   /\ End("Exit(1)", <<"Evaluation triggered",
                                       "Missing evaluation_id in response.">>)
                   /\ local' = [local EXCEPT !.project_id = project_id]
               ELSE
                   /\ pc' = "poll"
                   /\ local' = [local EXCEPT
                         !.project_id = project_id,
                         !.evaluation_id = resp.evaluation_id,
                         !.start = env.monotonic,
                         !.warned = FALSE,
                         !.spinner = [interactive |-> env.interactive,
                                      label |-> IF env.interactive
                                                THEN WAITING_LABEL ELSE None,
                                      last_printed |-> None]]
                   /\ output' = output \o <<"Evaluation triggered">>
                                \o (IF env.interactive THEN <<>> ELSE <<WAITING_LABEL>>)
                   /\ UNCHANGED outcome
    /\ UNCHANGED <<cmd, args>>

\* (variant of FOLLOW_UP_STATUSES with every terminal status)
FollowUpStatusesAllTerminal == {"completed", "partial", "failed", "cancelled"}

\* (variant of FOLLOW_UP_STATUSES with "failed")
FollowUpStatusesWithFailed == {"completed", "partial", "failed"}

\* The final statuses after which insights and recommendations are fetched.
FOLLOW_UP_STATUSES == {"completed", "partial"}

\* (variant of TimedOut that also gives up when the elapsed time equals the
\* budget)
TimedOutAtBudget(now, start, timeout) == now - start >= timeout

\* The timeout test at the head of each iteration of the poll loop.
TimedOut(now, start, timeout) == now - start > timeout

\* time.sleep(poll_interval)
Sleep == env' = [env EXCEPT !.monotonic = @ + args.poll_interval]

\* One iteration of the poll loop: the timeout test, the job-list request,
\* the spinner updates, and either the break or the sleep.
EvalPoll ==
    /\ cmd = "evaluate" /\ pc = "poll"
    /\ IF TimedOut(env.monotonic, local.start, args.timeout) THEN
           /\ End("Exit(1)", <<TIMED_OUT>>)
           /\ UNCHANGED <<local, env, requests>>
       ELSE \E resp \in JobListResponses :
           /\ requests' = Append(requests,
                 Request("jobs", args.experiment_id,
                         [project_id |-> local.project_id], resp))
           /\ IF resp.raised THEN
                  /\ End("Exception", <<>>)
                  /\ UNCHANGED <<local, env>>
              ELSE IF HandleApiErrorRaises(resp.status_code) THEN
                  /\ End("Exit(1)", <<"handle_api_error: evaluation jobs">>)
                  /\ UNCHANGED <<local, env>>
              ELSE
                  LET job == FindJob(resp.jobs, local.evaluation_id) IN
                  IF ~PyTruthy(job) THEN
                      /\ local' = [local EXCEPT
                            !.job = job,
                            !.spinner = SpinnerUpdate(@, NOT_VISIBLE)]
                      /\ output' = output \o SpinnerPrints(local.spinner, NOT_VISIBLE)
                      /\ Sleep
                      /\ UNCHANGED <<pc, outcome>>
                  ELSE
                      LET status == JobStatus(job)
                          spinner1 == SpinnerUpdate(local.spinner, StatusLine(job))
                          printed1 == SpinnerPrints(local.spinner, StatusLine(job))
                          warns == /\ status = "queued" /\ ~local.warned
                                   /\ BacklogSuspected(job)
                      IN
                      IF status \in TERMINAL_STATUSES THEN
                          /\ local' = [local EXCEPT !.job = job, !.status = status,
                                                    !.spinner = spinner1]
                          /\ IF status \in FOLLOW_UP_STATUSES THEN
                                 /\ pc' = "insights"
                                 /\ output' = output \o printed1
                                 /\ UNCHANGED outcome
                             ELSE AfterResults(printed1)
                          /\ UNCHANGED env
                      ELSE
                          /\ local' = [local EXCEPT
                                !.job = job, !.status = status,
                                !.warned = local.warned \/ warns,
                                !.spinner = IF warns
                                            THEN SpinnerUpdate(spinner1, BACKLOG_WARNING)
                                            ELSE spinner1]
                          /\ output' = output \o printed1
                                \o (IF warns
                                    THEN SpinnerPrints(spinner1, BACKLOG_WARNING)
                                    ELSE <<>>)
                          /\ Sleep
                          /\ UNCHANGED <<pc, outcome>>
    /\ UNCHANGED <<cmd, args>>

\* Answers to the insights and to the recommendations request: a failure
\* status, or a list of items (empty, or with headlines).
Item(content) == PyDict([content |-> content])

HeadlineResponses ==
    {Answer(500)}
    \cup { Answer(200) @@ [items |-> items] :
             items \in { <<>>,
                         <<Item(PyDict([summary |-> PyDict([headline |-> PyStr("h1")])])),
                           Item(PyDict([summary |-> PyDict([headline |-> PyStr("h2")])]))>> } }

\* The headline read from the first item of an insights or recommendations
\* list, None for an empty list.
Headline(items) ==
    IF Len(items) = 0 THEN PyNone
    ELSE LET content == PyOr(Get(items[1], "content"), PyDict([none |-> PyNone]))
             summary == PyOr(Get(content, "summary"), PyDict([none |-> PyNone]))
         IN  Get(summary, "headline")

\* After a completed or partial job: the insights request.
EvalInsights ==
    /\ cmd = "evaluate" /\ pc = "insights"
    /\ \E resp \in HeadlineResponses :
        /\ requests' = Append(requests,
              Request("insights", args.experiment_id,
                      [project_id |-> local.project_id], resp))
        /\ IF resp.raised THEN
               /\ End("Exception", <<>>)
               /\ UNCHANGED local
           ELSE IF HandleApiErrorRaises(resp.status_code) THEN
               /\ End("Exit(1)", <<"handle_api_error: insights">>)
               /\ UNCHANGED local
           ELSE
               /\ pc' = "recommendations"
               /\ local' = [local EXCEPT !.insight_headline = Headline(resp.items)]
               /\ UNCHANGED <<outcome, output>>
    /\ UNCHANGED <<cmd, args, env>>

\* Then the recommendations request, and the two headlines.
EvalRecommendations ==
    /\ cmd = "evaluate" /\ pc = "recommendations"
    /\ \E resp \in HeadlineResponses :
        /\ requests' = Append(requests,
              Request("recommendations", args.experiment_id,
                      [project_id |-> local.project_id], resp))
        /\ IF resp.raised THEN End("Exception", <<>>)
           ELSE IF HandleApiErrorRaises(resp.status_code) THEN
               End("Exit(1)", <<"handle_api_error: recommendations">>)
           ELSE
               LET reco_headline == Headline(resp.items) IN
               AfterResults(
                   (IF PyTruthy(local.insight_headline)
                    THEN <<"Insights: " \o local.insight_headline.value>> ELSE <<>>)
                   \o (IF PyTruthy(reco_headline)
                       THEN <<"Recommendations: " \o reco_headline.value>> ELSE <<>>))
    /\ UNCHANGED <<cmd, args, env, local>>

DECISION_NOT_FOUND == "Decision not found for experiment: "
DECISION_NOT_READY == "Decision is not available yet for this experiment."
RUN_WITH_WAIT == "Run with --wait and try again after evaluation completes."

\* Gate results of the decision bodies.
GateDeterministic ==
    PyDict([gate_key |-> PyStr("ground_truth:deterministic"), status |-> PyStr("fail"),
            reason |-> PyText(<<"coverage_below_threshold", ":", "2", ";", " ",
                                "violated_constraints", ":", "1">>)])
GateFailCount ==
    PyDict([gate_key |-> PyStr("run:fail_count"), status |-> PyStr("pass")])
GateWarningCount ==
    PyDict([gate_key |-> PyStr("run:warning_count"), status |-> PyStr("warn"),
            reason |-> PyText(<<"limit_exceeded", ":", "1">>)])

\* Bodies of the decision answer: not a dict, every decision field null or
\* missing, and decisions with one or several of the fields set.
DecisionPayloads ==
    { PyList(<<>>),
      PyDict([evaluation_id |-> PyNone, experiment_id |-> PyStr("exp_1"),
              release_decision |-> PyNone, decision_snapshot |-> PyNone,
              gate_snapshot |-> PyNone, gate_results_snapshot |-> PyNone]),
      PyDict([experiment_id |-> PyStr("exp_1")]),
      PyDict([gate_snapshot |-> PyDict([none |-> PyNone])]),
      PyDict([release_decision |-> PyStr("ready"),
              decision_snapshot |-> PyDict([overall_verdict |-> PyStr("pass")]),
              gate_results_snapshot |-> PyList(<<>>)]),
      PyDict([release_decision |-> PyStr("review"),
              decision_snapshot |->
                  PyDict([overall_verdict |-> PyStr("fail"),
                          gate_results |-> PyList(<<GateWarningCount>>),
                          metrics |-> PyDict([tokens_used |-> PyInt(12450)])]),
              gate_results_snapshot |-> PyList(<<GateFailCount, GateDeterministic>>)]) }

\* Answers to the decision request.
DecisionResponses ==
    {Raised} \cup {Answer(404), Answer(500)}
    \cup { Answer(200) @@ [payload |-> payload] : payload \in DecisionPayloads }

\* json.dumps of a decision body.
JsonDumps(payload) == ToString(payload)

\* _show_decision: the decision request, "not found" on 404,
\* handle_api_error, "not available yet" on an empty decision, else the raw
\* JSON (--json) or the rendered text.
EvalDecision ==
    /\ cmd = "evaluate" /\ pc = "decision"
    /\ \E resp \in DecisionResponses :
        /\ requests' = Append(requests,
              Request("decision", args.experiment_id,
                      [project_id |-> local.project_id], resp))
        /\ IF resp.raised THEN End("Exception", <<>>)
           ELSE IF resp.status_code = 404 THEN
               End("Exit(1)", <<DECISION_NOT_FOUND \o args.experiment_id>>)
           ELSE IF HandleApiErrorRaises(resp.status_code) THEN
               End("Exit(1)", <<"handle_api_error: decision">>)
           ELSE IF DecisionIsEmpty(resp.payload) THEN
               End("Exit(1)", <<DECISION_NOT_READY, RUN_WITH_WAIT>>)
           ELSE IF args.json_output THEN
               End("ok", <<JsonDumps(resp.payload)>>)
           ELSE
               End("ok", <<"">> \o RenderDecisionText(resp.payload))
    /\ UNCHANGED <<cmd, args, env, local>>

NextEval ==
    \/ EvalTrigger
    \/ EvalPoll
    \/ EvalInsights
    \/ EvalRecommendations
    \/ EvalDecision

SpecEval == InitEval /\ [][NextEval]_vars

\* The command runs to its end: no step of it waits on anything but the
\* answers of the API and the sleep between polls.
SpecEvalFair == InitEval /\ [][NextEval]_vars /\ WF_vars(NextEval)

(***************************************************************************)
(* _render_decision_text and _normalize_gate_reason applied to bounded     *)
(* decision bodies and gate results.                                       *)
(***************************************************************************)
\* Longest `reason` text, in lexemes.
MaxReasonLen == 4

\* The lexemes of the `reason` texts: two words, a digit, the colon, the
\* two separators and the blank.
Lexemes == {"a", "b", "1", ":", ",", ";", " "}

\* The reason of the server's example: two counted reasons.
COUNTED_REASONS ==
    <<"coverage_below_threshold", ":", "2", ";", " ", "violated_constraints", ":", "1">>

\* `reason` values: every text up to the bound, the example, and a number.
ReasonValues ==
    { PyText(text) : text \in ListsUpTo(Lexemes, MaxReasonLen) \cup {COUNTED_REASONS} }
    \cup {PyInt(7)}

\* Entries of a `reasons` list.
ReasonItems ==
    { PyText(<<"a">>), PyText(<<"a", ":", "1">>), PyText(<<" ", "b", ":", " ", "2">>),
      PyText(<<"a", ",", "b">>), PyText(<<" ">>), PyText(<<>>), PyInt(7) }

\* Gate results given to _normalize_gate_reason: with a `reasons` list (and
\* a `reason` or none), or without one (missing, null, or a text) and any
\* `reason`.
ReasonGateResults ==
    { PyDict([reasons |-> PyList(items), reason |-> reason]) :
        items \in ListsUpTo(ReasonItems, MaxItems),
        reason \in {PyNone, PyText(<<"b", ":", "1">>)} }
    \cup { PyDict([reasons |-> reasons, reason |-> reason]) :
             reasons \in {PyNone, PyText(<<"a">>)}, reason \in ReasonValues \cup {PyNone} }
    \cup { PyDict([reason |-> PyText(<<"a", ":", "1">>)]) }

\* Elements of a gate list: the three gates of the decision bodies, and a
\* value that is not a dict.
GateElements == {GateFailCount, GateWarningCount, GateDeterministic, PyInt(7)}

\* gate_results_snapshot and decision_snapshot.gate_results: null, not a
\* list, or a list of gate results.
GateLists ==
    {PyNone, PyInt(1)} \cup { PyList(gates) : gates \in ListsUpTo(GateElements, MaxItems) }

\* Decision bodies given to _render_decision_text.
RenderPayloads ==
    { PyDict([release_decision |-> PyStr("review"),
              decision_snapshot |-> PyDict([overall_verdict |-> PyStr("fail"),
                                            gate_results |-> snapshot_gate_results]),
              gate_results_snapshot |-> gate_results]) :
        gate_results \in GateLists, snapshot_gate_results \in GateLists }
    \cup { PyDict([decision_snapshot |-> decision_snapshot,
                   gate_results_snapshot |-> gate_results]) :
             decision_snapshot \in {PyNone, PyInt(1)}, gate_results \in GateLists }

InitRender ==
    /\ cmd \in {"_render_decision_text", "_normalize_gate_reason"}
    /\ args \in (IF cmd = "_render_decision_text"
                 THEN [payload : RenderPayloads]
                 ELSE [gate_result : ReasonGateResults])
    /\ pc = "call"
    /\ local = [returned |-> <<>>]
    /\ env = [ current_scenario_id |-> Unread, current_web_project_id |-> Unread,
               file_state |-> Unread ]
    /\ requests = <<>>
    /\ outcome = "running"
    /\ output = <<>>

CallRenderDecisionText ==
    /\ cmd = "_render_decision_text" /\ pc = "call"
    /\ local' = [returned |-> RenderDecisionText(args.payload)]
    /\ pc' = "returned"
    /\ outcome' = "ok"
    /\ UNCHANGED <<cmd, args, env, requests, output>>

CallNormalizeGateReason ==
    /\ cmd = "_normalize_gate_reason" /\ pc = "call"
    /\ local' = [returned |-> NormalizeGateReason(args.gate_result)]
    /\ pc' = "returned"
    /\ outcome' = "ok"
    /\ UNCHANGED <<cmd, args, env, requests, output>>

NextRender ==
    \/ CallRenderDecisionText
    \/ CallNormalizeGateReason

SpecRender == InitRender /\ [][NextRender]_vars




(***************************************************************************)
(* Properties.                                                             *)
(*                                                                         *)
(* Reading used throughout: an option counts as given (supplied) when its  *)
(* value is non-empty, as the code tests options by truthiness;            *)
(* --sampling-seed counts as given when it comes from the command line.    *)
(***************************************************************************)
PushOrder == <<"create", "upload", "confirm", "bind", "materialize">>

\* The answer recorded with request r let the protocol go on: the call
\* returned a success status (for create, with a data id and an upload URL);
\* for bind, "already bound" (409) counts as success.
StepSucceeded(r) ==
    /\ ~r.resp.raised
    /\ \/ IsSuccess(r.resp.status_code)
       \/ r.step = "bind" /\ r.resp.status_code = 409
    /\ r.step = "create" => Truthy(r.resp.data_id) /\ Truthy(r.resp.upload_url)

\* C1: in every run of data push the requests issued so far are a prefix of
\* create, upload, confirm, bind, materialize (so none is issued twice or out
\* of order), and every request but the first follows a request that
\* succeeded.
C1_PushOrder ==
    cmd = "push" =>
        /\ Len(requests) <= Len(PushOrder)
        /\ \A i \in 1..Len(requests) : requests[i].step = PushOrder[i]
        /\ \A i \in 2..Len(requests) : StepSucceeded(requests[i - 1])

\* C1 witness: a push that issued all five requests, the bind answered 409.
C1_Witness ==
    /\ cmd = "push" /\ pc = "done" /\ outcome = "ok"
    /\ Len(requests) = 5
    /\ requests[4].resp.status_code = 409


\* Some ground-truth-only option is given on the command line.
GtOptionGiven ==
    \/ Truthy(args.split)
    \/ Truthy(args.label_column)
    \/ Truthy(args.row_filter)
    \/ args.sampling_seed_source = "COMMANDLINE"

\* The command has ended in failure without any remote request.
FailedWithoutRequest ==
    /\ pc = "done"
    /\ outcome \in {"BadParameter", "Exit(1)"}
    /\ requests = <<>>

\* An input validation of push fails: invalid usage, invalid split,
\* ground-truth-only options under usage context, usage ground-truth with no
\* resolvable scenario, file missing or not a regular file.
PushValidationFails ==
    \/ ~NormalizeUsageOk(args.usage)
    \/ ~NormalizeSplitOk(args.split)
    \/ NormalizeUsage(args.usage) = USAGE_CONTEXT /\ GtOptionGiven
    \/ /\ NormalizeUsage(args.usage) = USAGE_GROUND_TRUTH
       /\ ~Truthy(args.scenario)
       /\ (~args.bind \/ env.current_scenario_id = None)
    \/ env.file_state \in {"missing", "directory"}

\* C2: data push fails fast: once validation has run, a push whose input
\* fails any validation has ended in failure and has issued no request.
C2_FailFast ==
    (cmd = "push" /\ pc # "start" /\ PushValidationFails) => FailedWithoutRequest

\* C2 witness: a push of a directory, all options valid, ended in failure
\* with no request issued.
C2_Witness ==
    /\ cmd = "push" /\ env.file_state = "directory"
    /\ output = <<"Not a file">>
    /\ FailedWithoutRequest

\* C3: data push --usage ground-truth given neither --bind nor --scenario
\* fails with the parameter error "--usage ground-truth requires --bind or
\* --scenario", for every file and every choice of the other options that
\* pass validation.
C3_RequiresBindOrScenario ==
    ( /\ cmd = "push" /\ pc # "start"
      /\ NormalizeUsage(args.usage) = USAGE_GROUND_TRUTH
      /\ NormalizeSplitOk(args.split)
      /\ ~args.bind /\ ~Truthy(args.scenario) )
    => /\ FailedWithoutRequest
       /\ outcome = "BadParameter"
       /\ output = <<"--usage ground-truth requires --bind or --scenario">>

\* C3 witness: such a push, with other ground-truth options given, has failed.
C3_Witness ==
    /\ cmd = "push" /\ pc = "done"
    /\ NormalizeUsage(args.usage) = USAGE_GROUND_TRUTH
    /\ ~args.bind /\ args.scenario = "" /\ args.label_column = "answer"
    /\ args.as_type = "document"
    /\ output = <<"--usage ground-truth requires --bind or --scenario">>

\* C4: in a ground-truth push a create request is issued only if a non-empty
\* scenario id was resolved, the resolved id being the --scenario value when
\* given and else the current scenario of the context when --bind is set;
\* with --bind, no --scenario and no current scenario the command exits with
\* status 1 and "Ground Truth upload requires a scenario binding.".
C4_ScenarioResolution ==
    (cmd = "push" /\ NormalizeUsage(args.usage) = USAGE_GROUND_TRUTH) =>
        /\ requests # <<>> =>
              /\ Truthy(local.scenario_id)
              /\ IF Truthy(args.scenario)
                 THEN local.scenario_id = args.scenario
                 ELSE args.bind /\ local.scenario_id = env.current_scenario_id
        /\ (args.bind /\ ~Truthy(args.scenario) /\ env.current_scenario_id = None)
              => /\ FailedWithoutRequest
                 /\ ExitCode(outcome) = 1
                 /\ output = <<"Ground Truth upload requires a scenario binding.">>

\* C4 witness: --bind without --scenario and without a current scenario.
C4_Witness ==
    /\ cmd = "push" /\ pc = "done"
    /\ NormalizeUsage(args.usage) = USAGE_GROUND_TRUTH
    /\ args.bind /\ args.scenario = None /\ env.current_scenario_id = None
    /\ output = <<"Ground Truth upload requires a scenario binding.">>

RoleMessage ==
    "--split/--label-column/--row-filter/--sampling-seed require --role validation"

GtKeys == {"split", "label_column", "row_filter", "sampling_seed"}

C7_CreatePayload ==
    cmd = "push" =>
        \A i \in 1..Len(requests) :
            requests[i].step = "create" =>
                LET json == requests[i].json IN
                IF NormalizeUsage(args.usage) = USAGE_GROUND_TRUTH
                THEN /\ json.data_category = "DATASET"
                     /\ json.file_type = "structured"
                     /\ json.processing_profile = "dataset"
                ELSE /\ json.processing_profile = "auto"
                     /\ json.data_category \in {"DATASET", "KNOWLEDGE"}
                     /\ json.file_type = "structured" <=> json.data_category = "DATASET"

\* C7 witness: a ground-truth push of a markdown file with --as document
\* sent a DATASET create request.
C7_Witness ==
    /\ cmd = "push" /\ Len(requests) >= 1
    /\ NormalizeUsage(args.usage) = USAGE_GROUND_TRUTH
    /\ args.file = "requirements.md" /\ args.as_type = "document"
    /\ requests[1].json.data_category = "DATASET"

\* The role a bind request is made under: validation for a ground-truth
\* push, none for a context push, the normalized --role for data bind.
BindRole ==
    IF cmd = "bind" THEN NormalizeRole(args.role)
    ELSE IF NormalizeUsage(args.usage) = USAGE_GROUND_TRUTH THEN "validation"
    ELSE None

\* C8: a bind request whose binding_meta holds any of split, label_column,
\* row_filter, sampling_seed has binding_meta.role = "validation"; under a
\* non-validation role binding_meta is exactly {role}; with no role, or in a
\* context-mode push, there is no binding_meta.
C8_BindingMeta ==
    \A i \in 1..Len(requests) :
        requests[i].step = "bind" =>
            LET json == requests[i].json
                hasMeta == "binding_meta" \in DOMAIN json
            IN  /\ (hasMeta /\ DOMAIN json.binding_meta \cap GtKeys # {})
                      => json.binding_meta.role = "validation"
                /\ (BindRole # None /\ BindRole # "validation")
                      => (hasMeta /\ json.binding_meta = [role |-> BindRole])
                /\ BindRole = "validation"
                      => (hasMeta /\ json.binding_meta.role = "validation")
                /\ BindRole = None => DOMAIN json = {"data_id"}

\* C8 witness: data bind --role input sent binding_meta {role: input}.
C8_Witness ==
    /\ cmd = "bind" /\ Len(requests) >= 1
    /\ requests[1].step = "bind"
    /\ requests[1].json = [data_id |-> "data_9", binding_meta |-> [role |-> "input"]]

\* C9: every materialize payload is {data_id, sampling_seed} extended with
\* split, label_column, row_filter exactly for the options given, each with
\* the given value (the split normalized); in push the data_id is the one
\* the create step returned.
C9_MaterializePayload ==
    \A i \in 1..Len(requests) :
        requests[i].step = "materialize" =>
            LET json == requests[i].json IN
            /\ DOMAIN json =
                  {"data_id", "sampling_seed"}
                  \cup (IF Truthy(args.split) THEN {"split"} ELSE {})
                  \cup (IF Truthy(args.label_column) THEN {"label_column"} ELSE {})
                  \cup (IF Truthy(args.row_filter) THEN {"row_filter"} ELSE {})
            /\ json.sampling_seed = args.sampling_seed
            /\ json.data_id = IF cmd = "push" THEN requests[1].resp.data_id
                              ELSE args.data_id
            /\ Truthy(json.data_id)
            /\ Truthy(args.split) =>
                  (json.split = StripLower(args.split) /\ json.split \in VALID_GT_SPLITS)
            /\ Truthy(args.label_column) => json.label_column = args.label_column
            /\ Truthy(args.row_filter) => json.row_filter = args.row_filter

\* C9 witness: the push of the specification's scenario (--split test
\* --label-column answer --row-filter "lang = 'ko'" --sampling-seed 7).
C9_Witness ==
    /\ cmd = "push" /\ Len(requests) = 5
    /\ requests[5].step = "materialize"
    /\ requests[5].json = [ data_id |-> "data_1", sampling_seed |-> 7,
                            split |-> "test", label_column |-> "answer",
                            row_filter |-> "lang = 'ko'" ]

\* C10: in a ground-truth push a 409 answer to bind is treated as success
\* (the command goes on to materialize, or ends with status 0 under
\* --no-materialize-gt); a materialize request follows only a bind answer
\* that is successful or 409; any other bind outcome ends the command in
\* failure with no materialize request.
C10_GtBind ==
    ( /\ cmd = "push" /\ local.usage_mode = USAGE_GROUND_TRUTH
      /\ Len(requests) >= 4 ) =>
        LET resp == requests[4].resp
            accepted == ~resp.raised
                        /\ (IsSuccess(resp.status_code) \/ resp.status_code = 409)
        IN  /\ requests[4].step = "bind"
            /\ (~resp.raised /\ resp.status_code = 409) =>
                  IF args.materialize_gt
                  THEN (Len(requests) = 4 => pc = "materialize")
                  ELSE (pc = "done" /\ outcome = "ok")
            /\ Len(requests) >= 5 => (accepted /\ args.materialize_gt)
            /\ ~accepted => /\ pc = "done" /\ ExitCode(outcome) = 1
                            /\ Len(requests) = 4

\* C10 witness: a ground-truth push whose bind was answered 409 and whose
\* materialize request was then issued and answered.
C10_Witness ==
    /\ cmd = "push" /\ local.usage_mode = USAGE_GROUND_TRUTH
    /\ Len(requests) = 5
    /\ requests[4].resp.status_code = 409
    /\ requests[5].step = "materialize"
    /\ args.split = " Test "

\* C11: in a context push whose create, upload and confirm succeeded, every
\* answer to the bind request (success, 404, 409 or any other status) ends
\* the command with status 0: no bind answer is fatal, and no materialize
\* request follows.
C11_ContextBind ==
    ( /\ cmd = "push" /\ local.usage_mode = USAGE_CONTEXT
      /\ Len(requests) >= 4 ) =>
        /\ requests[4].step = "bind"
        /\ \A i \in 1..3 : StepSucceeded(requests[i])
        /\ Len(requests) = 4
        /\ ~requests[4].resp.raised =>
              /\ pc = "done" /\ ExitCode(outcome) = 0
              /\ output = ContextBindWarning(requests[4].resp.status_code)

\* C11 witness: a context push that ended with status 0 after its bind was
\* answered 500, with the warning printed.
C11_Witness ==
    /\ cmd = "push" /\ local.usage_mode = USAGE_CONTEXT
    /\ Len(requests) = 4
    /\ ~requests[4].resp.raised /\ requests[4].resp.status_code = 500
    /\ pc = "done" /\ outcome = "ok"
    /\ output = <<"Binding failed">>

\* The three remediation groups, for counting how many of them a run printed.
RemediationGroups == {WAIT_GROUP, ROLE_GROUP, INSPECT_GROUP}

\* Whether the (lowered) detail contains one of the given tokens.
DetailHas(detail_lower, tokens) ==
    \E token \in tokens : Contains(detail_lower, token)

\* C12: whenever a materialize request (of push or of bind) is answered with
\* a non-success status, the command ends with status 1, having printed
\* "Ground Truth materialization failed (<status>)" and exactly one
\* remediation group: the wait-for-processing one for a 409 whose detail
\* contains processing / not ready / pending / queued; else the
\* validation-role one for a 409 whose detail contains role / validation;
\* else the inspect one. No completion summary is printed.
C12_MaterializeError ==
    ( /\ Len(requests) >= 1
      /\ requests[Len(requests)].step = "materialize"
      /\ ~requests[Len(requests)].resp.raised
      /\ ~IsSuccess(requests[Len(requests)].resp.status_code) ) =>
        LET resp == requests[Len(requests)].resp
            low == Lower(resp.detail)
            waits == DetailHas(low, {"processing", "not ready", "pending", "queued"})
            roles == DetailHas(low, {"role", "validation"})
            group == IF resp.status_code = 409 /\ waits THEN WAIT_GROUP
                     ELSE IF resp.status_code = 409 /\ roles THEN ROLE_GROUP
                     ELSE INSPECT_GROUP
        IN  /\ pc = "done" /\ ExitCode(outcome) = 1
            /\ Len(output) >= 1
            /\ output[1] = "Ground Truth materialization failed ("
                              \o ToString(resp.status_code) \o ")"
            /\ \A i \in 1..Len(output) : output[i] \in RemediationGroups
                                           <=> i = Len(output)
            /\ output[Len(output)] = group
            /\ \A i \in 1..Len(output) :
                  output[i] \notin {"Ground Truth binding complete",
                                    "Validation (GT) binding complete",
                                    "Data ID / Scenario ID"}

\* C12 witness: a materialize request answered 409 with a detail that names
\* both the validation binding and a pending state; the wait-for-processing
\* group was printed.
C12_Witness ==
    /\ Len(requests) >= 1
    /\ requests[Len(requests)].step = "materialize"
    /\ ~requests[Len(requests)].resp.raised
    /\ requests[Len(requests)].resp.status_code = 409
    /\ requests[Len(requests)].resp.detail = "Validation binding is Pending"
    /\ pc = "done" /\ outcome = "Exit(1)"
    /\ output[Len(output)] = WAIT_GROUP

\* Positions of the bind requests among the requests issued so far.
BindRequests == {i \in 1..Len(requests) : requests[i].step = "bind"}

\* Whether the command materializes after its bind: a ground-truth push, or
\* a validation-role bind, unless --no-materialize-gt.
MaterializesAfterBind ==
    /\ args.materialize_gt
    /\ IF cmd = "push" THEN local.usage_mode = USAGE_GROUND_TRUTH
       ELSE local.role_value = "validation"

\* C13: every run of push or bind issues at most one bind request (a 409 is
\* not retried), and after a 409 the command is where it is after a
\* successful bind: about to materialize (or past it) when the command
\* materializes, and otherwise ended with status 0 and the same output.
C13_BindOnce ==
    /\ Cardinality(BindRequests) <= 1
    /\ \A i \in BindRequests :
        LET resp == requests[i].resp IN
        (~resp.raised /\ (resp.status_code = 409 \/ IsSuccess(resp.status_code))) =>
            IF MaterializesAfterBind
            THEN /\ Len(requests) = i => pc = "materialize" /\ outcome = "running"
                 /\ Len(requests) > i =>
                       /\ Len(requests) = i + 1
                       /\ requests[i + 1].step = "materialize"
            ELSE /\ Len(requests) = i
                 /\ pc = "done" /\ ExitCode(outcome) = 0
                 /\ output = IF cmd = "push" THEN PushSummary ELSE BindSummary

\* C13 witness: a validation-role bind whose bind request was answered 409
\* and whose materialize request was then issued, with no second bind
\* request.
C13_Witness ==
    /\ cmd = "bind" /\ local.role_value = "validation"
    /\ Len(requests) = 2
    /\ requests[1].step = "bind" /\ requests[1].resp.status_code = 409
    /\ ~requests[1].resp.raised
    /\ requests[2].step = "materialize"
    /\ Cardinality(BindRequests) = 1

\* The elements of a sequence.
Range(seq) == {seq[i] : i \in 1..Len(seq)}

\* Position of the first occurrence of an element of a sequence.
FirstIndex(seq, element) ==
    CHOOSE i \in 1..Len(seq) :
        seq[i] = element /\ \A j \in 1..(i - 1) : seq[j] # element

\* C14: _extract_gt_contract_ids returns a list without duplicates that
\* holds exactly the non-empty string ids found in `gt_contracts` (strings,
\* or an object's `id`, else its `contract_id`) followed by those found in
\* `gt_contract_ids`, in the order of their first occurrences.
C14_ExtractIds ==
    (cmd = "_extract_gt_contract_ids" /\ pc = "returned") =>
        LET unique_ids == local.returned
            found == CollectedIds(args.payload)
        IN  /\ \A i, j \in 1..Len(unique_ids) :
                  unique_ids[i] = unique_ids[j] => i = j
            /\ Range(unique_ids) = Range(found)
            /\ \A i \in 1..Len(unique_ids) : IsNonEmptyStr(unique_ids[i])
            /\ \A i, j \in 1..Len(unique_ids) :
                  i < j => FirstIndex(found, unique_ids[i])
                             < FirstIndex(found, unique_ids[j])

\* C14 witness: `gt_contracts` [{"id": "c1"}, "c2"] and `gt_contract_ids`
\* ["c2", "c1"] give ["c1", "c2"].
C14_Witness ==
    /\ cmd = "_extract_gt_contract_ids" /\ pc = "returned"
    /\ args.payload = PyDict([gt_contracts |-> PyList(<<PyDict([id |-> PyStr("c1")]), PyStr("c2")>>),
                              gt_contract_ids |-> PyList(<<PyStr("c2"), PyStr("c1")>>)])
    /\ local.returned = <<PyStr("c1"), PyStr("c2")>>

\* The six columns of a ground-truth status row.
RowColumns ==
    { "data_id", "materialization_status", "ground_truth_profile_id",
      "gt_contract_count", "processing_status", "updated_at" }

\* The records a status body is read as: the list itself, the list under
\* `items`, else the list under `statuses`, else the dict as a single record;
\* nothing for a body that is neither list nor dict. Elements that are not
\* dicts are dropped.
RecordsOf(payload) ==
    LET elements ==
            CASE payload.type = "list" -> payload.value
              [] payload.type = "dict" /\ "items" \in DOMAIN payload.value
                 /\ payload.value["items"].type = "list" -> payload.value["items"].value
              [] payload.type = "dict" /\ "statuses" \in DOMAIN payload.value
                 /\ payload.value["statuses"].type = "list" -> payload.value["statuses"].value
              [] payload.type = "dict" -> <<payload>>
              [] OTHER -> <<>>
        IsDict(element) == element.type = "dict"
    IN  SelectSeq(elements, IsDict)

\* C15: _build_gt_status_rows returns, for every body (a list, a dict with
\* an `items` list, a dict with a `statuses` list, any other dict, or a
\* value that is neither), one row per dict element in order, none for a
\* body that is neither list nor dict; each row has the six columns, and its
\* data_id is the item's own when that is a non-empty string, else the
\* caller's fallback, else "N/A".
C15_StatusRows ==
    /\ (cmd = "_build_gt_status_rows" /\ pc = "call") =>
            ENABLED CallBuildGtStatusRows
    /\ (cmd = "_build_gt_status_rows" /\ pc = "returned") =>
        LET rows == local.returned
            records == RecordsOf(args.payload)
        IN  /\ Len(rows) = Len(records)
            /\ args.payload.type \notin {"list", "dict"} => rows = <<>>
            /\ \A i \in 1..Len(rows) :
                LET own == IF "data_id" \in DOMAIN records[i].value
                           THEN records[i].value["data_id"] ELSE PyNone
                IN  /\ RowColumns \subseteq DOMAIN rows[i]
                    /\ rows[i].data_id =
                         IF own.type = "str" /\ own.value # "" THEN own
                         ELSE IF args.fallback_data_id.type = "str"
                                 /\ args.fallback_data_id.value # ""
                              THEN args.fallback_data_id
                         ELSE PyStr("N/A")

\* C15 witness: a dict whose `items` list holds a non-dict element and a
\* record with an empty data_id, read with fallback "d9": one row, with
\* data_id "d9".
C15_Witness ==
    /\ cmd = "_build_gt_status_rows" /\ pc = "returned"
    /\ args.payload.type = "dict"
    /\ "items" \in DOMAIN args.payload.value
    /\ args.payload.value["items"].type = "list"
    /\ Len(args.payload.value["items"].value) = 2
    /\ args.payload.value["items"].value[1] = PyStr("d1")
    /\ args.fallback_data_id = PyStr("d9")
    /\ Len(local.returned) = 1
    /\ local.returned[1].data_id = PyStr("d9")
    /\ local.returned[1].ground_truth_profile_id = PyStr("p2")

\* C16: in every row _build_gt_status_rows returns, gt_contract_count is the
\* number of distinct contract ids of the record.
C16_DistinctCount ==
    (cmd = "_build_gt_status_rows" /\ pc = "returned") =>
        \A i \in 1..Len(local.returned) :
            local.returned[i].gt_contract_count
              = Cardinality(Range(local.returned[i].gt_contract_ids))

\* Positions of the job-list requests among the requests issued so far.
JobPolls == {i \in 1..Len(requests) : requests[i].step = "jobs"}

\* Whether the job-list request at position i was answered with a listing.
Listed(i) ==
    ~requests[i].resp.raised /\ IsSuccess(requests[i].resp.status_code)

\* The record of the triggered job in the listing of poll i (None when the
\* listing does not contain it).
Observed(i) ==
    LET jobs == requests[i].resp.jobs
        found == {k \in 1..Len(jobs) : jobs[k].value["id"] = PyStr(local.evaluation_id)}
    IN  IF found = {} THEN PyNone
        ELSE jobs[CHOOSE k \in found : \A m \in found : k <= m]

\* Whether poll i observed the job in a terminal status.
ObservedTerminal(i) ==
    /\ Observed(i) # PyNone
    /\ Observed(i).value["status"] \in
          {PyStr("completed"), PyStr("partial"), PyStr("failed"), PyStr("cancelled")}

\* C17: in evaluate --wait the poll loop ends without a timeout exactly when
\* a poll observes the job in status completed, partial, failed or
\* cancelled; every other observation (job absent, status missing, queued,
\* running, unknown) is followed by the sleep of one poll interval and the
\* next iteration (the next job-list request, unless the timeout has then
\* passed); after a terminal observation no job-list request is issued.
C17_PollLoop ==
    (cmd = "evaluate" /\ args.wait) =>
        /\ \A i \in JobPolls : Listed(i) =>
              IF ObservedTerminal(i)
              THEN /\ pc # "poll"
                   /\ \A j \in JobPolls : j <= i
                   /\ \A k \in 1..Len(output) : output[k] # TIMED_OUT
              ELSE /\ i = Len(requests) =>
                         \/ pc = "poll"
                         \/ pc = "done" /\ output[Len(output)] = TIMED_OUT
                   /\ i < Len(requests) => requests[i + 1].step = "jobs"
        /\ (pc \in {"insights", "decision"} \/ (pc = "done" /\ outcome = "ok")) =>
              \E i \in JobPolls : Listed(i) /\ ObservedTerminal(i)
        /\ pc = "poll" =>
              env.monotonic - local.start
                = args.poll_interval
                    * Cardinality({i \in JobPolls : Listed(i) /\ ~ObservedTerminal(i)})

\* C17 witness: three polls that observed the job absent, then in an
\* unknown status, then completed; the loop has ended.
C17_Witness ==
    /\ cmd = "evaluate" /\ args.wait
    /\ Len(requests) = 4
    /\ JobPolls = {2, 3, 4}
    /\ Listed(2) /\ Observed(2) = PyNone
    /\ Listed(3) /\ Observed(3) # PyNone
    /\ Observed(3).value["status"] = PyStr("paused")
    /\ Listed(4) /\ ObservedTerminal(4)
    /\ pc = "insights"

\* A step that is one iteration of the poll loop whose job-list request was
\* answered with a listing.
PollStep ==
    /\ cmd = "evaluate" /\ pc = "poll"
    /\ Len(requests') = Len(requests) + 1
    /\ ~requests'[Len(requests')].resp.raised
    /\ IsSuccess(requests'[Len(requests')].resp.status_code)

\* The lines a step adds to the output.
NewLines == SubSeq(output', Len(output) + 1, Len(output'))

\* Number of occurrences of a line in the output.
Count(line) == Cardinality({k \in 1..Len(output) : output[k] = line})

\* C18 as stated: a poll that observes the same job status as the poll
\* before it prints no status line.
C18_Original ==
    [][ ( /\ PollStep
          /\ local.job # PyNone /\ local'.job # PyNone
          /\ JobStatus(local.job) = JobStatus(local'.job) )
        => NewLines \in {<<>>, <<BACKLOG_WARNING>>} ]_vars

\* C18, amended: a poll that observes the job prints its status line (the
\* status followed by the progress counts) exactly when the output is not
\* interactive and the line differs from the text the spinner printed last;
\* so two consecutive polls with the same status and the same progress
\* print it once, unless the backlog warning was printed in between.
C18_Rerender ==
    [][ (PollStep /\ local'.job # PyNone) =>
          LET line == StatusLine(local'.job)
              printed == NewLines # <<>> /\ NewLines[1] = line
          IN  /\ printed <=> ( /\ ~env.interactive
                               /\ line # local.spinner.last_printed )
              /\ ( /\ local.job # PyNone
                   /\ StatusLine(local.job) = line
                   /\ local.spinner.last_printed # BACKLOG_WARNING )
                 => ~printed ]_vars

\* C18 witness: two consecutive polls observed the job running at 1 of 2,
\* and the non-interactive output holds that status line once.
C18_Witness ==
    /\ cmd = "evaluate" /\ ~env.interactive
    /\ Len(requests) = 3 /\ JobPolls = {2, 3}
    /\ Listed(2) /\ Listed(3)
    /\ Observed(2) # PyNone /\ Observed(2) = Observed(3)
    /\ Observed(2).value["status"] = PyStr("running")
    /\ Count("running (1/2)") = 1

\* Whether a listed job record is waiting in the queue with a created_at
\* more than 30 seconds old and no locked_at (a record without a status is
\* read as queued).
OldUnlockedQueued(job) ==
    /\ job # PyNone
    /\ job.value["status"] \in {PyStr("queued"), PyNone}
    /\ job.value["created_at"] = PyStr("31s ago")
    /\ job.value["locked_at"] = PyNone

\* The run observed, on three successive polls, the job queued, then
\* running, then completed, each time with a created_at more than 30
\* seconds old and no locked_at.
QueuedRunningCompleted ==
    /\ JobPolls = {2, 3, 4}
    /\ \A i \in 2..4 :
          /\ Listed(i) /\ Observed(i) # PyNone
          /\ Observed(i).value["created_at"] = PyStr("31s ago")
          /\ Observed(i).value["locked_at"] = PyNone
    /\ Observed(2).value["status"] = PyStr("queued")
    /\ Observed(3).value["status"] = PyStr("running")
    /\ Observed(4).value["status"] = PyStr("completed")

\* C19: in every evaluate --wait run the backlog warning is emitted at most
\* once, and only by a poll that observes the job queued with a created_at
\* more than 30 seconds old and no locked_at; a run that observes the job
\* queued, running, completed on successive polls, each time with an old
\* created_at and no locked_at, emits it exactly once, before the
\* completion. (On non-interactive output an emission is a printed line; in
\* both modes it is the step that sets `warned`.)
C19_BacklogWarning ==
    /\ [] ( cmd = "evaluate" =>
              /\ Count(BACKLOG_WARNING) <= 1
              /\ Count(BACKLOG_WARNING) = 1 => local.warned
              /\ QueuedRunningCompleted =>
                    /\ local.warned
                    /\ ~env.interactive =>
                          /\ Count(BACKLOG_WARNING) = 1
                          /\ \E k \in 1..Len(output) :
                                /\ output[k] = BACKLOG_WARNING
                                /\ \A m \in 1..k : output[m] # "completed" )
    /\ [][ ( \/ \E k \in 1..Len(NewLines) : NewLines[k] = BACKLOG_WARNING
             \/ ~local.warned /\ local'.warned )
           => ( /\ PollStep
                /\ ~local.warned /\ local'.warned
                /\ OldUnlockedQueued(local'.job) ) ]_vars

\* C19 witness: the queued, running, completed run on non-interactive
\* output, with the warning printed once, after the first status line.
C19_Witness ==
    /\ cmd = "evaluate" /\ ~env.interactive
    /\ QueuedRunningCompleted
    /\ output = << "Evaluation triggered", WAITING_LABEL, "queued",
                   BACKLOG_WARNING, "running (2/2, failed 1)", "completed" >>

\* C20: a poll whose listing does not contain the triggered evaluation is
\* transient (the command does not fail and goes on to the next iteration
\* after the poll interval), and the "not visible yet" warning is emitted
\* at most once per run, however many polls find the job absent.
C20_NotVisibleOnce ==
    (cmd = "evaluate" /\ args.wait) =>
        /\ \A i \in JobPolls : (Listed(i) /\ Observed(i) = PyNone) =>
              /\ i = Len(requests) =>
                    \/ pc = "poll" /\ outcome = "running"
                    \/ pc = "done" /\ output[Len(output)] = TIMED_OUT
              /\ i < Len(requests) => requests[i + 1].step = "jobs"
        /\ Count(NOT_VISIBLE) <= 1

\* Seconds elapsed since the poll loop was entered.
Elapsed == env.monotonic - local.start

\* A step that ends the command with the timeout message, without a request.
EndsTimedOut ==
    /\ requests' = requests
    /\ pc' = "done" /\ outcome' = "Exit(1)"
    /\ output' = Append(output, TIMED_OUT)

\* C21: every evaluate --wait run with a positive poll interval terminates.
\* The poll loop is left only by a poll that observes a terminal status, by
\* a failed job-list request (exit 1), or by the timeout; once the elapsed
\* time exceeds --timeout the next step exits with status 1 and "Timed out
\* waiting for evaluation job.", and no job-list request is issued after the
\* budget has been exceeded.
C21_Terminates ==
    /\ (cmd = "evaluate" /\ args.wait /\ args.poll_interval > 0) ~> (pc = "done")
    /\ [][ (cmd = "evaluate" /\ pc = "poll" /\ pc' # "poll") =>
             \/ /\ Len(requests') = Len(requests) + 1
                /\ (Listed(Len(requests)) /\ ObservedTerminal(Len(requests)))'
             \/ /\ Len(requests') = Len(requests) + 1
                /\ ~Listed(Len(requests))'
                /\ pc' = "done" /\ ExitCode(outcome') = 1
             \/ /\ Elapsed > args.timeout
                /\ EndsTimedOut ]_vars
    /\ [][ (cmd = "evaluate" /\ pc = "poll" /\ Elapsed > args.timeout) =>
             /\ EndsTimedOut
             /\ ExitCode(outcome') = 1 ]_vars
    /\ [][ (cmd = "evaluate" /\ pc = "poll" /\ requests' # requests) =>
             Elapsed <= args.timeout ]_vars

\* A run whose polls never saw a terminal status and that ended on the
\* timeout, after the budget was exceeded.
C21_Witness ==
    /\ cmd = "evaluate" /\ args.wait /\ pc = "done"
    /\ outcome = "Exit(1)" /\ output[Len(output)] = TIMED_OUT
    /\ Elapsed > args.timeout
    /\ Cardinality(JobPolls) >= 2
    /\ \A i \in JobPolls : Listed(i) /\ ~ObservedTerminal(i)

\* Positions of the requests of one step.
RequestsOf(step) == {k \in 1..Len(requests) : requests[k].step = step}

\* Whether the poll loop ended on a poll that observed one of the statuses.
LoopEndedWith(statuses) ==
    \E i \in JobPolls :
        /\ Listed(i) /\ ObservedTerminal(i)
        /\ Observed(i).value["status"].value \in statuses

\* C22: the insights and recommendations requests are issued if and only if
\* the poll loop ended with status completed or partial, and only after the
\* poll that observed that status (the recommendations request follows the
\* answered insights request); when the loop ended with failed or cancelled
\* neither request is issued.
C22_FollowUps ==
    cmd = "evaluate" =>
        /\ \A k \in RequestsOf("insights") \cup RequestsOf("recommendations") :
              \E i \in JobPolls :
                  /\ i < k
                  /\ Listed(i) /\ ObservedTerminal(i)
                  /\ Observed(i).value["status"].value \in {"completed", "partial"}
        /\ \A k \in RequestsOf("recommendations") :
              \E j \in RequestsOf("insights") : j < k
        /\ (LoopEndedWith({"completed", "partial"}) /\ pc # "insights") =>
              RequestsOf("insights") # {}
        /\ ( /\ \E j \in RequestsOf("insights") :
                    IsSuccess(requests[j].resp.status_code)
             /\ pc # "recommendations" ) =>
              RequestsOf("recommendations") # {}
        /\ LoopEndedWith({"failed", "cancelled"}) =>
              RequestsOf("insights") \cup RequestsOf("recommendations") = {}

\* A run whose loop ended on "partial" and that issued both requests, and
\* then ended.
C22_Witness ==
    /\ cmd = "evaluate" /\ pc = "done" /\ outcome = "ok"
    /\ LoopEndedWith({"partial"})
    /\ RequestsOf("insights") # {} /\ RequestsOf("recommendations") # {}

\* The last n lines of the output.
LastLines(n) == SubSeq(output, Len(output) - n + 1, Len(output))

\* Whether a decision body has none of the four decision fields: it is not
\* a dict, or each of the fields is null (or missing).
NotReady(payload) ==
    \/ payload.type # "dict"
    \/ /\ payload.type = "dict"
       /\ \A key \in {"release_decision", "decision_snapshot", "gate_snapshot",
                      "gate_results_snapshot"} :
              key \in DOMAIN payload.value => payload.value[key] = PyNone

\* C23: with --show-decision, an answered decision body is "not ready"
\* exactly when it is not a dict or all of release_decision,
\* decision_snapshot, gate_snapshot and gate_results_snapshot are null; the
\* command then exits with status 1 and "Decision is not available yet for
\* this experiment.", and the decision request is never repeated; every
\* other body is rendered (as text, or as raw JSON with --json) and the
\* command succeeds.
C23_DecisionNotReady ==
    cmd = "evaluate" =>
        /\ Cardinality(RequestsOf("decision")) <= 1
        /\ \A k \in RequestsOf("decision") :
              /\ args.show_decision
              /\ k = Len(requests)
              /\ pc = "done"
              /\ (~requests[k].resp.raised /\ IsSuccess(requests[k].resp.status_code)) =>
                    LET payload == requests[k].resp.payload
                        rendered == RenderDecisionText(payload)
                    IN  IF NotReady(payload) THEN
                            /\ ExitCode(outcome) = 1
                            /\ LastLines(2) = <<DECISION_NOT_READY, RUN_WITH_WAIT>>
                        ELSE
                            /\ ExitCode(outcome) = 0
                            /\ IF args.json_output
                               THEN LastLines(1) = <<JsonDumps(payload)>>
                               ELSE LastLines(Len(rendered)) = rendered

\* A run that asked for the decision and got a body whose four decision
\* fields are all null.
C23_Witness ==
    /\ cmd = "evaluate" /\ args.show_decision /\ pc = "done"
    /\ outcome = "Exit(1)"
    /\ \E k \in RequestsOf("decision") :
          /\ IsSuccess(requests[k].resp.status_code)
          /\ requests[k].resp.payload.type = "dict"
          /\ NotReady(requests[k].resp.payload)
    /\ LastLines(2) = <<DECISION_NOT_READY, RUN_WITH_WAIT>>

\* The gate list the rendering is to use: gate_results_snapshot when it is
\* a list, else decision_snapshot.gate_results (nothing when that is no
\* list either).
ChosenGateList(payload) ==
    LET decision_snapshot == payload.value["decision_snapshot"] IN
    IF payload.value["gate_results_snapshot"].type = "list"
    THEN payload.value["gate_results_snapshot"].value
    ELSE IF /\ decision_snapshot.type = "dict"
            /\ decision_snapshot.value["gate_results"].type = "list"
    THEN decision_snapshot.value["gate_results"].value
    ELSE <<>>

\* The lines of a rendered decision between "Gates:" and the blank line
\* before "Budget:".
GatesSection(lines) ==
    LET budget == CHOOSE i \in 1..Len(lines) : lines[i] = "Budget:"
    IN  SubSeq(lines, 5, budget - 2)

\* C24: the rendered decision takes its gate list from gate_results_snapshot
\* whenever that field is a list (also when decision_snapshot.gate_results
\* is present and different), otherwise from decision_snapshot.gate_results;
\* the gates are rendered in the order of the chosen list, and "(none)" is
\* rendered when the chosen list is empty.
C24_GateList ==
    (cmd = "_render_decision_text" /\ pc = "returned") =>
        LET chosen == ChosenGateList(args.payload)
            IsGate(gate_result) == gate_result.type = "dict"
            gates == SelectSeq(chosen, IsGate)
        IN  /\ local.returned[4] = "Gates:"
            /\ Len(chosen) = 0 => GatesSection(local.returned) = <<" - (none)">>
            /\ Len(chosen) > 0 =>
                  GatesSection(local.returned) = [i \in 1..Len(gates) |-> GateLine(gates[i])]

\* A decision whose two gate lists are both present and differ: the two
\* gates of gate_results_snapshot are rendered, in their order.
C24_Witness ==
    /\ cmd = "_render_decision_text" /\ pc = "returned"
    /\ args.payload.value["gate_results_snapshot"] = PyList(<<GateDeterministic, GateFailCount>>)
    /\ args.payload.value["decision_snapshot"].type = "dict"
    /\ args.payload.value["decision_snapshot"].value["gate_results"]
          = PyList(<<GateWarningCount, GateDeterministic>>)
    /\ GatesSection(local.returned) =
          << " - ground_truth:deterministic => fail (coverage_below_threshold, violated_constraints)",
             " - run:fail_count => pass" >>

\* A text without its leading and trailing blanks.
Trimmed(text) ==
    LET inked == {i \in 1..Len(text) : text[i] # " "} IN
    IF inked = {} THEN <<>>
    ELSE SubSeq(text, CHOOSE i \in inked : \A j \in inked : i <= j,
                      CHOOSE i \in inked : \A j \in inked : j <= i)

\* The pieces of a text between its commas and semicolons, in order.
Pieces(text) ==
    LET IsSep(i) == i \in 1..Len(text) /\ text[i] \in {",", ";"}
        starts == {i \in 1..(Len(text) + 1) : i = 1 \/ IsSep(i - 1)}
        EndOf(i) == CHOOSE j \in (i - 1)..Len(text) :
                        /\ j = Len(text) \/ IsSep(j + 1)
                        /\ \A k \in i..j : ~IsSep(k)
        Nth(n) == CHOOSE i \in starts : Cardinality({k \in starts : k < i}) = n - 1
    IN  [n \in 1..Cardinality(starts) |-> SubSeq(text, Nth(n), EndOf(Nth(n)))]

\* The members of a sequence of texts that are not blank, trimmed.
NonEmpty(texts) ==
    LET IsInked(text) == Trimmed(text) # <<>>
        kept == SelectSeq(texts, IsInked)
    IN  [i \in 1..Len(kept) |-> Trimmed(kept[i])]

\* The tokens of a gate result: the non-empty entries of `reasons` when it
\* is a list, else the non-empty pieces of `reason`.
TokensOf(gate_result) ==
    IF "reasons" \in DOMAIN gate_result.value /\ gate_result.value["reasons"].type = "list"
    THEN NonEmpty([i \in 1..Len(gate_result.value["reasons"].value) |->
                      Str(gate_result.value["reasons"].value[i])])
    ELSE IF gate_result.value["reason"] = PyNone THEN <<>>
    ELSE NonEmpty(Pieces(Str(gate_result.value["reason"])))

\* A token without its trailing ":<integer>" count.
WithoutCount(token) ==
    LET cuts == {k \in 1..Len(token) :
                    /\ token[k] = ":"
                    /\ Trimmed(SubSeq(token, k + 1, Len(token))) # <<>>
                    /\ \A i \in 1..Len(Trimmed(SubSeq(token, k + 1, Len(token)))) :
                          Trimmed(SubSeq(token, k + 1, Len(token)))[i] \in Digits}
    IN  IF cuts = {} THEN token
        ELSE Trimmed(SubSeq(token, 1, (CHOOSE k \in cuts : TRUE) - 1))

\* The distinct non-empty members of a sequence, each at its first
\* occurrence.
FirstOccurrences(texts) ==
    LET IsFirst(i) == texts[i] # <<>> /\ \A j \in 1..(i - 1) : texts[j] # texts[i]
        firsts == {i \in 1..Len(texts) : IsFirst(i)}
        Nth(n) == CHOOSE i \in firsts : Cardinality({k \in firsts : k < i}) = n - 1
    IN  [n \in 1..Cardinality(firsts) |-> texts[Nth(n)]]

\* The texts of a sequence, separated by ", ".
RECURSIVE Joined(_)
Joined(texts) ==
    IF Len(texts) = 0 THEN <<>>
    ELSE IF Len(texts) = 1 THEN texts[1]
    ELSE Joined(SubSeq(texts, 1, Len(texts) - 1)) \o <<",", " ">> \o texts[Len(texts)]

\* C25: the reason rendered for a gate is built from its tokens (the
\* non-empty entries of `reasons` when it is a list, else the non-empty
\* pieces of `reason` split on commas and semicolons) by stripping a
\* trailing ":<integer>" count from each token, removing duplicates after
\* stripping while keeping the order of first occurrence, and joining with
\* ", "; no reason is rendered when no token remains.
C25_NormalizedReason ==
    (cmd = "_normalize_gate_reason" /\ pc = "returned") =>
        LET tokens == TokensOf(args.gate_result)
            kept == FirstOccurrences([i \in 1..Len(tokens) |-> WithoutCount(tokens[i])])
        IN  /\ kept = <<>> <=> local.returned = PyNone
            /\ kept # <<>> =>
                  /\ local.returned.type = "str"
                  /\ local.returned.value = Joined(kept)

\* The example: "coverage_below_threshold:2; violated_constraints:1" is
\* rendered as "coverage_below_threshold, violated_constraints".
C25_Witness ==
    /\ cmd = "_normalize_gate_reason" /\ pc = "returned"
    /\ args.gate_result.value["reason"] = PyText(COUNTED_REASONS)
    /\ local.returned.type = "str"
    /\ Flatten(local.returned.value) = "coverage_below_threshold, violated_constraints"

\* The command line holds a parameter error: an invalid --usage or --split,
\* ground-truth options under usage context (push) or under a role other
\* than validation (bind), or a ground-truth push with neither --bind nor
\* --scenario.
ParameterError ==
    \/ /\ cmd = "push"
       /\ \/ ~NormalizeUsageOk(args.usage)
          \/ ~NormalizeSplitOk(args.split)
          \/ NormalizeUsage(args.usage) = USAGE_CONTEXT /\ GtOptionGiven
          \/ /\ NormalizeUsage(args.usage) = USAGE_GROUND_TRUTH
             /\ ~args.bind /\ ~Truthy(args.scenario)
    \/ /\ cmd = "bind"
       /\ \/ ~NormalizeSplitOk(args.split)
          \/ GtOptionGiven /\ NormalizeRole(args.role) # "validation"

\* C26 as stated: every command exits with status 0 on success and 1 on any
\* validation or remote failure; in particular every parameter error
\* yields exit code 1.
C26_Original ==
    (cmd \in {"push", "bind"} /\ pc # "start") =>
        /\ ParameterError => pc = "done" /\ ExitCode(outcome) = 1
        /\ pc = "done" =>
              /\ ExitCode(outcome) \in {0, 1}
              /\ ExitCode(outcome) = 0 <=> outcome = "ok"

\* C26 (amended): data push and data bind exit with status 0 on success and
\* 1 on a failed validation of the file or scenario and on a remote
\* failure; a parameter error (invalid --usage or --split, ground-truth
\* options with the wrong usage or role, ground-truth push without --bind
\* and --scenario) is raised as typer.BadParameter before any request and
\* yields exit code 2.
C26_ExitCodes ==
    (cmd \in {"push", "bind"} /\ pc # "start") =>
        /\ ParameterError =>
              /\ pc = "done" /\ outcome = "BadParameter"
              /\ ExitCode(outcome) = 2
              /\ requests = <<>>
        /\ (pc = "done" /\ ~ParameterError) =>
              /\ ExitCode(outcome) \in {0, 1}
              /\ ExitCode(outcome) = 0 <=> outcome = "ok"

\* A bind with --split under role input: rejected with the parameter error,
\* exit code 2.
C26_Witness ==
    /\ cmd = "bind" /\ pc = "done"
    /\ NormalizeRole(args.role) = "input" /\ args.split = " Test "
    /\ outcome = "BadParameter" /\ ExitCode(outcome) = 2
    /\ output = <<RoleMessage>>

\* Whether a bind request was answered with a success status or with 409.
BindAccepted(request) ==
    /\ ~request.resp.raised
    /\ IsSuccess(request.resp.status_code) \/ request.resp.status_code = 409

\* C27: in data bind the materialize request is issued if and only if the
\* normalized role is "validation", --no-materialize-gt is not given, and
\* the bind request was answered with a success status or 409; for any
\* other role, or with --no-materialize-gt, no materialize request is ever
\* issued and the command exits with status 0 after such a bind answer.
C27_BindMaterialize ==
    cmd = "bind" =>
        /\ RequestsOf("materialize") # {} =>
              /\ NormalizeRole(args.role) = "validation"
              /\ args.materialize_gt
              /\ \A k \in RequestsOf("materialize") :
                    \E i \in RequestsOf("bind") : i < k /\ BindAccepted(requests[i])
        /\ ( /\ NormalizeRole(args.role) = "validation" /\ args.materialize_gt
             /\ \E i \in RequestsOf("bind") : BindAccepted(requests[i])
             /\ pc # "materialize" ) =>
              RequestsOf("materialize") # {}
        /\ (NormalizeRole(args.role) # "validation" \/ ~args.materialize_gt) =>
              /\ RequestsOf("materialize") = {}
              /\ (\E i \in RequestsOf("bind") : BindAccepted(requests[i])) =>
                    pc = "done" /\ ExitCode(outcome) = 0

\* A validation bind answered 409 that went on to the materialize request.
C27_Witness ==
    /\ cmd = "bind" /\ args.role = " Validation " /\ args.materialize_gt
    /\ Len(requests) = 2
    /\ requests[1].step = "bind" /\ requests[1].resp.status_code = 409
    /\ requests[2].step = "materialize"

\* A record without one of its keys.
Without(record, key) == [k \in DOMAIN record \ {key} |-> record[k]]

\* C28: in a ground-truth run (push --usage ground-truth, or bind --role
\* validation) that issues both requests, the binding_meta of the bind
\* request without its role has the same keys and values (sampling_seed,
\* split, label_column, row_filter) as the payload of the materialize
\* request without its data_id, and both requests name the same data_id and
\* the same scenario.
C28_SameGtOptions ==
    \A i \in RequestsOf("bind") : \A k \in RequestsOf("materialize") :
        /\ "binding_meta" \in DOMAIN requests[i].json
        /\ requests[i].json.binding_meta.role = "validation"
        /\ Without(requests[i].json.binding_meta, "role")
              = Without(requests[k].json, "data_id")
        /\ DOMAIN Without(requests[k].json, "data_id")
              \subseteq {"sampling_seed", "split", "label_column", "row_filter"}
        /\ requests[i].json.data_id = requests[k].json.data_id
        /\ requests[i].target = requests[k].target

\* A validation bind with a split, a row filter and the seed 7 that issued
\* both requests.
C28_Witness ==
    /\ cmd = "bind" /\ Len(requests) = 2
    /\ requests[1].step = "bind" /\ requests[2].step = "materialize"
    /\ requests[1].json.binding_meta =
          [role |-> "validation", sampling_seed |-> 7, split |-> "test",
           row_filter |-> "lang = 'ko'"]
    /\ requests[2].json =
          [data_id |-> "data_9", sampling_seed |-> 7, split |-> "test",
           row_filter |-> "lang = 'ko'"]

\* The scenario a push is to bind to: --scenario when given, else the
\* current scenario when --bind is set, else none.
ScenarioToBind ==
    IF Truthy(args.scenario) THEN args.scenario
    ELSE IF args.bind THEN env.current_scenario_id
    ELSE None

\* Whether the confirm request of a push was answered with success.
UploadConfirmed ==
    \E i \in RequestsOf("confirm") :
        ~requests[i].resp.raised /\ IsSuccess(requests[i].resp.status_code)

\* C30: in a context push the bind request is issued if and only if a
\* scenario id was resolved (--scenario, else the current scenario when
\* --bind is set), once the upload is confirmed; with --bind, no --scenario
\* and no current scenario the upload completes, no bind or materialize
\* request is issued, and the command exits with status 0.
C30_ContextBind ==
    (cmd = "push" /\ NormalizeUsage(args.usage) = USAGE_CONTEXT /\ requests # <<>>) =>
        /\ \A i \in RequestsOf("bind") :
              /\ Truthy(ScenarioToBind)
              /\ requests[i].target = ScenarioToBind
              /\ UploadConfirmed
        /\ (UploadConfirmed /\ Truthy(ScenarioToBind) /\ pc # "bind") =>
              RequestsOf("bind") # {}
        /\ RequestsOf("materialize") = {}
        /\ (args.bind /\ ~Truthy(args.scenario) /\ env.current_scenario_id = None) =>
              /\ RequestsOf("bind") = {}
              /\ UploadConfirmed => pc = "done" /\ outcome = "ok" /\ ExitCode(outcome) = 0

\* A context push with --bind, no --scenario and no current scenario that
\* uploaded its file and ended with success after three requests.
C30_Witness ==
    /\ cmd = "push" /\ NormalizeUsage(args.usage) = USAGE_CONTEXT
    /\ args.bind /\ ~Truthy(args.scenario) /\ env.current_scenario_id = None
    /\ pc = "done" /\ outcome = "ok"
    /\ Len(requests) = 3 /\ requests[3].step = "confirm"

\* Whether the request of a step was answered with success.
Answered(step) ==
    \E i \in RequestsOf(step) :
        ~requests[i].resp.raised /\ IsSuccess(requests[i].resp.status_code)

\* C29: the outcome of evaluate --wait does not depend on the terminal
\* status. Without --show-decision, a run whose loop ended with failed or
\* cancelled ends right there, raises no failure and exits with status 0,
\* exactly as a run that ended with completed or partial does once its
\* insights and recommendations requests have succeeded.
C29_StatusBlindOutcome ==
    (cmd = "evaluate" /\ args.wait /\ ~args.show_decision) =>
        /\ LoopEndedWith({"failed", "cancelled"}) =>
              /\ pc = "done" /\ outcome = "ok" /\ ExitCode(outcome) = 0
              /\ requests[Len(requests)].step = "jobs"
        /\ ( /\ LoopEndedWith({"completed", "partial"})
             /\ Answered("insights") /\ Answered("recommendations") ) =>
              pc = "done" /\ outcome = "ok" /\ ExitCode(outcome) = 0

\* A run whose job was cancelled: the command ended with success on the
\* poll that observed it.
C29_Witness ==
    /\ cmd = "evaluate" /\ args.wait /\ ~args.show_decision
    /\ LoopEndedWith({"cancelled"})
    /\ pc = "done" /\ outcome = "ok"
    /\ output[Len(output)] = "cancelled"

====
